---- MODULE Spec2Model ----
(***************************************************************************)
(* solwatch-v2: the per-address streaming subscribers (tracker.Subscriber), *)
(* their registry (tracker.Manager) and the analysis pipeline               *)
(* (analyzer.Analyzer), as state machines translated from the Go source.    *)
(***************************************************************************)
EXTENDS Integers, Sequences, FiniteSets, TLC

(***************************************************************************)
(* Bounds of the model.                                                     *)
(***************************************************************************)
\* Subscriber instances NewSubscriber may allocate in one run.
MaxInst == 2
\* Connections of earlier loop iterations whose closer goroutine has not run yet.
MaxOrphans == 1
\* The clock runs from 0 to MaxTime seconds, in steps of TimeStep seconds.
MaxTime == 65
TimeStep == 5
\* Entries of tx.AccountData and of tx.TokenTransfers in a transaction given to shouldFilter.
MaxAccountData == 2
MaxTransfers == 2
MaxInbox == 2
MaxRecordLen == 80
\* Analyses of one transaction for one address.
Reruns == 2
\* handleCommand goroutines in progress at once, and addresses in one
\* /trackmany or /untrackmany.
MaxHandlers == 2
MaxArgs == 2

(***************************************************************************)
(* Program constants.                                                       *)
(***************************************************************************)
\* isDuplicate: time.Since(ts) < 30*time.Second
DedupWindow == 30
\* cleanCache: time.NewTicker(1 * time.Minute)
SweepInterval == 60
\* cleanCache: time.Since(ts) > 1*time.Minute
SweepAge == 60
\* util.NewBackoff(1*time.Second, 30*time.Second, 2.0, 0.2)
BackoffMin == 1
BackoffMax == 30
BackoffFactor == 2
\* the jitter argument 0.2 of util.NewBackoff, in percent
BackoffJitterPct == 20
\* Run: signature[:16] in the log line of a new signature
SigLogPrefix == 16
\* Run: conn.SetReadDeadline(time.Now().Add(60 * time.Second)), in seconds
ReadTimeout == 60

Addrs == {"addrA", "addrB"}

\* Transaction signatures as the RPC node sends them (base58 of 64 bytes), and
\* a signature shorter than the prefix the read loop logs.
LongSignature == "5VERv8NMvzbJMEkV8xnrLkEaWRtSz9CosKDYjCJjBRnbJLgp8uirBgmQpjKhoR4tjF3ZpRzrFmBV6UjKdiSZkQUW"
OtherSignature == "2nBhEBYYvfaAe16UMNqRHre4YNSskvuYgx3M6E4JP1oDYvZEJHvoPzyUidNgNX5r9sTyN1J9UxtbCXy2rqYcuyuv"
ShortSignature == "abc"
Sigs == {LongSignature, OtherSignature}
Insts == 1..MaxInst
NoInst == 0
NoTime == -1

VARIABLES
  subs,         \* Manager.subs: address -> Subscriber instance (NoInst: absent)
  nInst,        \* Subscriber instances allocated so far
  subscribers,  \* the Subscriber objects and the goroutines each one owns
  ctxDone,      \* the process-wide context passed to Track is cancelled
  now,          \* wall clock, seconds
  lastCall,     \* the last Manager call: whether addr was registered, the error returned
  an,           \* the Analyzer, its caches, the calls of SignatureNotify in progress, the bot's outbox
  probe,        \* a function under test: its arguments and, once called, its result
  handler       \* the Telegram Handler: its wallet store and the command handlers in progress

vars == <<subs, nInst, subscribers, ctxDone, now, lastCall, an, probe, handler>>

(***************************************************************************)
(* Inbound WebSocket frames, as json.Unmarshal into logsNotification sees   *)
(* them: a payload that does not decode, or the three fields the read loop  *)
(* looks at. rpcError marks a JSON-RPC reply that carries an "error" member: *)
(* logsNotification has no field for it, so Unmarshal drops it.             *)
(***************************************************************************)
Methods == {"logsNotification", ""}

\* The node's reply {"jsonrpc":"2.0","error":{...},"id":1} to logsSubscribe.
SubscribeErrorReply ==
  [decodes |-> TRUE, method |-> "", signature |-> "", err |-> FALSE, rpcError |-> TRUE]

WireMsgs ==
  {[decodes |-> FALSE, method |-> "", signature |-> "", err |-> FALSE, rpcError |-> FALSE]}
  \cup {[decodes |-> TRUE, method |-> m, signature |-> s, err |-> e, rpcError |-> FALSE] :
          m \in Methods, s \in Sigs \cup {""}, e \in BOOLEAN}
  \cup {SubscribeErrorReply}

\* A notification whose signature is shorter than SigLogPrefix bytes.
ShortNotif ==
  [decodes |-> TRUE, method |-> "logsNotification", signature |-> ShortSignature,
   err |-> FALSE, rpcError |-> FALSE]

NoMsg == [decodes |-> FALSE, method |-> "", signature |-> "", err |-> FALSE, rpcError |-> FALSE]

\* A notification the read loop acts on.
ValidNotifs == {m \in WireMsgs : m.decodes /\ m.method = "logsNotification" /\ m.signature # "" /\ ~m.err}

\* A pong, the peer's answer to a ping of the pinger goroutine: a control
\* frame, which ReadMessage handles itself.
PongFrame == [decodes |-> FALSE, method |-> "PongMessage", signature |-> "", err |-> FALSE, rpcError |-> FALSE]

(***************************************************************************)
(* util.Backoff (package util is not among the sources): the delay sequence *)
(* 1 s, 2 s, 4 s, ... capped at 30 s; Next returns the current delay moved   *)
(* by a jitter of at most BackoffJitterPct percent, in milliseconds.        *)
(***************************************************************************)
Min(a, b) == IF a < b THEN a ELSE b

NewBackoff == BackoffMin

Jitters == {-BackoffJitterPct, 0, BackoffJitterPct}

BackoffNextDelay(cur, jitter) == cur * 10 * (100 + jitter)

BackoffNextState(cur) == Min(cur * BackoffFactor, BackoffMax)

BackoffReset == BackoffMin

(***************************************************************************)
(* tracker.Subscriber                                                       *)
(***************************************************************************)
EmptyCache == [s \in Sigs \cup {ShortSignature} |-> NoTime]

\* NewSubscriber: shouldOpen stored true, open false, stopCh open, cache empty.
\* The goroutine fields start as "none": Run has not spawned them yet.
\* History kept for the properties, per signature: notifiedCount, how often
\* SignatureNotify was called; notifiedLast, when it was called last; dupSeen,
\* whether isDuplicate has reported a duplicate. lastFail is the failure (dial,
\* subscribe, read) that ended the last connection attempt, "" once a dial has
\* succeeded; slept, whether time.Sleep(bo.Next()) has run since that failure;
\* redialed, whether a dial has succeeded since the last call of SignatureNotify.
\* inbox holds the frames that have reached the connection and that
\* ReadMessage has not returned yet; readDeadline is the connection's read
\* deadline. More history: lastRecv, when ReadMessage last took a frame of
\* any kind (the dial time before the first);
\* timedOut, whether the read deadline ended the connection; callbacks, the
\* calls of SignatureNotify that have not returned.
NewSubscriber(addr) ==
  [addr |-> addr, open |-> FALSE, shouldOpen |-> TRUE, stopCh |-> FALSE,
   dedupeCache |-> EmptyCache,
   runPc |-> "start", bo |-> NewBackoff, wait |-> 0,
   conn |-> "none", connCancelled |-> FALSE,
   closer |-> "none", pinger |-> "none", cleaner |-> "none",
   orphanConns |-> 0, orphanPingers |-> 0,
   tickPending |-> FALSE, cleanStart |-> 0,
   curMsg |-> NoMsg, cbSig |-> "",
   notifiedCount |-> [s \in Sigs |-> 0], notifiedLast |-> EmptyCache,
   dupSeen |-> [s \in Sigs |-> FALSE],
   lastFail |-> "", slept |-> FALSE, redialed |-> FALSE,
   inbox |-> <<>>, readDeadline |-> NoTime,
   lastRecv |-> NoTime, timedOut |-> FALSE, callbacks |-> 0]

\* A slot of the instance table NewSubscriber has not filled yet.
Unallocated == [NewSubscriber("") EXCEPT !.runPc = "unallocated"]

\* Stop as it would be without shouldOpen.Store(false).
StopKeepsFlag(s) ==
  IF s.stopCh THEN s ELSE [s EXCEPT !.stopCh = TRUE]

\* Subscriber.Stop: stopOnce; shouldOpen.Store(false); close(stopCh).
Stop(s) ==
  IF s.stopCh THEN s ELSE [s EXCEPT !.shouldOpen = FALSE, !.stopCh = TRUE]

\* isDuplicate as it would be with the window written 30*time.Millisecond.
isDuplicateMillis(cache, signature, t) ==
  cache[signature] # NoTime /\ (t - cache[signature]) * 1000 < DedupWindow

\* Subscriber.isDuplicate, its return value.
isDuplicate(cache, signature, t) ==
  cache[signature] # NoTime /\ t - cache[signature] < DedupWindow

\* Subscriber.isDuplicate, the cache it leaves.
isDuplicateCache(cache, signature, t) ==
  IF isDuplicate(cache, signature, t) THEN cache ELSE [cache EXCEPT ![signature] = t]

\* cleanCacheSweep as it would be if it deleted the entries older than the
\* duplicate window's third (10 s).
cleanCacheSweepEager(cache, t) ==
  [s \in DOMAIN cache |-> IF cache[s] # NoTime /\ (t - cache[s]) * 3 > DedupWindow THEN NoTime ELSE cache[s]]

\* Subscriber.cleanCache, one tick: the entries it keeps.
cleanCacheSweep(cache, t) ==
  [s \in DOMAIN cache |-> IF cache[s] # NoTime /\ t - cache[s] > SweepAge THEN NoTime ELSE cache[s]]

Allocated == 1..nInst

Set(i, s) == subscribers' = [subscribers EXCEPT ![i] = s]

Frame == UNCHANGED <<subs, nInst, ctxDone, now, lastCall, an, probe, handler>>

\* Run: bo := util.NewBackoff(...); go s.cleanCache(ctx)
RunStart(i) ==
  LET s == subscribers[i] IN
  /\ s.runPc = "start"
  /\ Set(i, [s EXCEPT !.runPc = "check", !.bo = NewBackoff, !.cleaner = "run", !.cleanStart = now])
  /\ Frame

\* Run: if !s.ShouldBeOpen() { return }  (bo is a local of Run: it ends here)
RunCheck(i) ==
  LET s == subscribers[i] IN
  /\ s.runPc = "check"
  /\ Set(i, IF s.shouldOpen THEN [s EXCEPT !.runPc = "dial"]
                            ELSE [s EXCEPT !.runPc = "done", !.bo = NewBackoff])
  /\ Frame

\* Run: websocket.DefaultDialer.DialContext(ctx, s.wss, ...) is called.
RunDialStart(i) ==
  LET s == subscribers[i] IN
  /\ s.runPc = "dial"
  /\ Set(i, [s EXCEPT !.runPc = "dialing"])
  /\ Frame

\* Run: DialContext returns an error (always so once ctx is cancelled);
\* wait := bo.Next()
RunDialFail(i) ==
  LET s == subscribers[i] IN
  /\ s.runPc = "dialing"
  /\ \E jitter \in Jitters :
       Set(i, [s EXCEPT !.runPc = "sleep", !.wait = BackoffNextDelay(s.bo, jitter),
                        !.bo = BackoffNextState(s.bo),
                        !.lastFail = "dial", !.slept = FALSE])
  /\ Frame

\* Run: DialContext returns a connection.
RunDialOk(i) ==
  LET s == subscribers[i] IN
  /\ s.runPc = "dialing"
  /\ ~ctxDone
  /\ s.orphanConns < MaxOrphans
  /\ s.orphanPingers < MaxOrphans
  /\ Set(i, [s EXCEPT !.runPc = "dialed", !.conn = "live", !.connCancelled = FALSE,
                      !.closer = "none", !.pinger = "none"])
  /\ Frame

\* Run: time.Sleep(wait); continue
RunSleep(i) ==
  LET s == subscribers[i] IN
  /\ s.runPc = "sleep"
  /\ Set(i, [s EXCEPT !.runPc = "check", !.wait = 0, !.slept = TRUE])
  /\ Frame

\* RunDialed as it would be without bo.Reset().
RunDialedNoReset(i) ==
  LET s == subscribers[i] IN
  /\ s.runPc = "dialed"
  /\ subscribers' = [subscribers EXCEPT ![i] =
       [s EXCEPT !.runPc = "subscribe", !.open = TRUE, !.closer = "wait",
                 !.lastFail = "", !.slept = FALSE, !.redialed = TRUE,
                      !.readDeadline = now + ReadTimeout, !.lastRecv = now, !.timedOut = FALSE]]
  /\ UNCHANGED <<subs, nInst, ctxDone, now, lastCall, an, probe, handler>>

\* RunDialed as it would be if the dedup cache belonged to the connection.
RunDialedFreshCache(i) ==
  LET s == subscribers[i] IN
  /\ s.runPc = "dialed"
  /\ subscribers' = [subscribers EXCEPT ![i] =
       [s EXCEPT !.runPc = "subscribe", !.open = TRUE, !.bo = BackoffReset, !.closer = "wait",
                 !.dedupeCache = EmptyCache,
                 !.lastFail = "", !.slept = FALSE, !.redialed = TRUE,
                      !.readDeadline = now + ReadTimeout, !.lastRecv = now, !.timedOut = FALSE]]
  /\ UNCHANGED <<subs, nInst, ctxDone, now, lastCall, an, probe, handler>>

\* Run: s.open.Store(true); bo.Reset(); connCtx := WithCancel(ctx); go closer
RunDialed(i) ==
  LET s == subscribers[i] IN
  /\ s.runPc = "dialed"
  /\ Set(i, [s EXCEPT !.runPc = "subscribe", !.open = TRUE, !.bo = BackoffReset, !.closer = "wait",
                      !.lastFail = "", !.slept = FALSE, !.redialed = TRUE,
                      !.readDeadline = now + ReadTimeout, !.lastRecv = now, !.timedOut = FALSE])
  /\ Frame

\* Leaving a loop iteration after connCancel(): the iteration's closer and pinger
\* goroutines, if still running, go on by themselves.
Detach(s) ==
  [s EXCEPT !.connCancelled = TRUE,
            !.orphanConns = IF s.closer = "wait" THEN s.orphanConns + 1 ELSE s.orphanConns,
            !.orphanPingers = IF s.pinger = "run" THEN s.orphanPingers + 1 ELSE s.orphanPingers,
            !.conn = "none", !.closer = "none", !.pinger = "none",
            !.inbox = <<>>, !.readDeadline = NoTime]

\* Run: conn.WriteJSON(subMsg) fails: connCancel(); continue
RunSubscribeFail(i) ==
  LET s == subscribers[i] IN
  /\ s.runPc = "subscribe"
  /\ Set(i, [Detach(s) EXCEPT !.runPc = "check", !.lastFail = "subscribe", !.slept = FALSE])
  /\ Frame

\* Run: conn.WriteJSON(subMsg) succeeds; go pinger
RunSubscribeOk(i) ==
  LET s == subscribers[i] IN
  /\ s.runPc = "subscribe"
  /\ s.conn = "live"
  /\ Set(i, [s EXCEPT !.runPc = "read", !.pinger = "run"])
  /\ Frame

\* Run: conn.ReadMessage() returns a frame.
RunReadMsg(i, m) ==
  LET s == subscribers[i] IN
  /\ s.runPc = "read"
  /\ s.conn = "live"
  /\ Set(i, [s EXCEPT !.runPc = "handle", !.curMsg = m])
  /\ Frame

\* A frame reaches the connection of subscriber i.
PeerSend(i, m) ==
  LET s == subscribers[i] IN
  /\ s.conn = "live"
  /\ s.runPc \in {"read", "handle", "callback"}
  /\ Len(s.inbox) < MaxInbox
  /\ Set(i, [s EXCEPT !.inbox = Append(@, m)])
  /\ Frame

\* RunHandle as it would be with "go SignatureNotify(signature, s.addr)".
RunHandleAsync(i) ==
  LET s == subscribers[i]
      m == s.curMsg
      sig == m.signature
      discarded == ~m.decodes \/ m.method # "logsNotification" \/ sig = "" \/ m.err
  IN
  /\ s.runPc = "handle"
  /\ IF discarded
       THEN Set(i, [s EXCEPT !.runPc = "read", !.curMsg = NoMsg])
       ELSE IF isDuplicate(s.dedupeCache, sig, now)
         THEN Set(i, [s EXCEPT !.runPc = "read", !.curMsg = NoMsg, !.dupSeen[sig] = TRUE])
         ELSE Set(i, [s EXCEPT !.runPc = "read", !.curMsg = NoMsg, !.cbSig = sig,
                               !.callbacks = @ + 1,
                               !.dedupeCache = isDuplicateCache(s.dedupeCache, sig, now),
                               !.notifiedCount[sig] = @ + 1, !.notifiedLast[sig] = now,
                               !.redialed = FALSE])
  /\ UNCHANGED <<subs, nInst, ctxDone, now, lastCall, an, probe, handler>>

\* RunReadQueued as it would be if a data frame extended the read deadline too.
RunReadQueuedExtends(i) ==
  LET s == subscribers[i]
      m == Head(s.inbox)
  IN
  /\ s.runPc = "read"
  /\ s.conn = "live"
  /\ s.inbox # <<>>
  /\ Set(i, IF m = PongFrame
              THEN [s EXCEPT !.inbox = Tail(@), !.readDeadline = now + ReadTimeout,
                             !.lastRecv = now]
              ELSE [s EXCEPT !.inbox = Tail(@), !.readDeadline = now + ReadTimeout,
                             !.runPc = "handle", !.curMsg = m, !.lastRecv = now])
  /\ Frame

\* Run: conn.ReadMessage() takes the next frame that has arrived. A pong runs
\* the pong handler, which sets the read deadline 60 s ahead, and ReadMessage
\* goes on waiting; a data frame is returned to the read loop.
RunReadQueued(i) ==
  LET s == subscribers[i]
      m == Head(s.inbox)
  IN
  /\ s.runPc = "read"
  /\ s.conn = "live"
  /\ s.inbox # <<>>
  /\ Set(i, IF m = PongFrame
              THEN [s EXCEPT !.inbox = Tail(@), !.readDeadline = now + ReadTimeout,
                             !.lastRecv = now]
              ELSE [s EXCEPT !.inbox = Tail(@), !.runPc = "handle", !.curMsg = m, !.lastRecv = now])
  /\ Frame

\* Run: conn.ReadMessage() fails because the read deadline has passed; break
RunReadDeadline(i) ==
  LET s == subscribers[i] IN
  /\ s.runPc = "read"
  /\ s.conn = "live"
  /\ now >= s.readDeadline
  /\ Set(i, [s EXCEPT !.runPc = "cleanup", !.lastFail = "read", !.slept = FALSE, !.timedOut = TRUE])
  /\ Frame

\* Run: conn.ReadMessage() returns an error on a live connection (transport
\* failure, read deadline); break
RunReadErr(i) ==
  LET s == subscribers[i] IN
  /\ s.runPc = "read"
  /\ s.conn = "live"
  /\ Set(i, [s EXCEPT !.runPc = "cleanup", !.lastFail = "read", !.slept = FALSE])
  /\ Frame

\* Run: conn.ReadMessage() on the connection the closer has closed; break
RunReadClosed(i) ==
  LET s == subscribers[i] IN
  /\ s.runPc = "read"
  /\ s.conn = "closed"
  /\ Set(i, [s EXCEPT !.runPc = "cleanup", !.lastFail = "read", !.slept = FALSE])
  /\ Frame

\* Run, the read loop's body: Unmarshal, the three discards, isDuplicate, the
\* log line that slices signature[:16] (a run-time panic, which ends the
\* process, when the signature is shorter), and the call of
\* SignatureNotify(signature, s.addr).
RunHandle(i) ==
  LET s == subscribers[i]
      m == s.curMsg
      sig == m.signature
      discarded == ~m.decodes \/ m.method # "logsNotification" \/ sig = "" \/ m.err
      panics == ~discarded /\ ~isDuplicate(s.dedupeCache, sig, now) /\ Len(sig) < SigLogPrefix
  IN
  /\ s.runPc = "handle"
  /\ IF discarded
       THEN Set(i, [s EXCEPT !.runPc = "read", !.curMsg = NoMsg])
       ELSE IF isDuplicate(s.dedupeCache, sig, now)
         THEN Set(i, [s EXCEPT !.runPc = "read", !.curMsg = NoMsg, !.dupSeen[sig] = TRUE])
         ELSE IF panics
           THEN Set(i, [s EXCEPT !.runPc = "panic", !.curMsg = NoMsg,
                                 !.dedupeCache = isDuplicateCache(s.dedupeCache, sig, now)])
           ELSE Set(i, [s EXCEPT !.runPc = "callback", !.curMsg = NoMsg, !.cbSig = sig,
                                 !.callbacks = @ + 1,
                                 !.dedupeCache = isDuplicateCache(s.dedupeCache, sig, now),
                                 !.notifiedCount[sig] = @ + 1, !.notifiedLast[sig] = now,
                                 !.redialed = FALSE])
  /\ an' = IF panics THEN [an EXCEPT !.panicked = TRUE] ELSE an
  /\ UNCHANGED <<subs, nInst, ctxDone, now, lastCall, probe, handler>>

\* Run: SignatureNotify returns; the read loop goes on.
RunCallbackReturn(i) ==
  LET s == subscribers[i] IN
  /\ s.runPc = "callback"
  /\ Set(i, [s EXCEPT !.runPc = "read", !.cbSig = "", !.callbacks = @ - 1])
  /\ Frame

\* RunCleanup as it would be if Run returned after a read error.
RunCleanupReturns(i) ==
  LET s == subscribers[i] IN
  /\ s.runPc = "cleanup"
  /\ subscribers' = [subscribers EXCEPT ![i] = [Detach(s) EXCEPT !.runPc = "done", !.open = FALSE]]
  /\ UNCHANGED <<subs, nInst, ctxDone, now, lastCall, an, probe, handler>>

\* Run, after the read loop: s.open.Store(false); connCancel()
RunCleanup(i) ==
  LET s == subscribers[i] IN
  /\ s.runPc = "cleanup"
  /\ Set(i, [Detach(s) EXCEPT !.runPc = "check", !.open = FALSE])
  /\ Frame

\* The closer goroutine as it would be if it waited for connCtx.Done() alone.
CloserRunNoStop(i) ==
  LET s == subscribers[i] IN
  /\ s.closer = "wait"
  /\ ctxDone \/ s.connCancelled
  /\ subscribers' = [subscribers EXCEPT ![i] = [s EXCEPT !.closer = "done", !.conn = "closed"]]
  /\ UNCHANGED <<subs, nInst, ctxDone, now, lastCall, an, probe, handler>>

\* The closer goroutine of the current connection: stopCh or connCtx.Done()
\* wakes it; it writes the close frame and closes the connection.
CloserRun(i) ==
  LET s == subscribers[i] IN
  /\ s.closer = "wait"
  /\ s.stopCh \/ ctxDone \/ s.connCancelled
  /\ Set(i, [s EXCEPT !.closer = "done", !.conn = "closed"])
  /\ Frame

\* The closer goroutine of an earlier iteration's connection.
OrphanCloserRun(i) ==
  LET s == subscribers[i] IN
  /\ s.orphanConns > 0
  /\ Set(i, [s EXCEPT !.orphanConns = @ - 1])
  /\ Frame

\* The pinger goroutine: connCtx.Done(), or a failed WriteControl once the
\* connection is closed; return
PingerExit(i) ==
  LET s == subscribers[i] IN
  /\ s.pinger = "run"
  /\ ctxDone \/ s.connCancelled \/ s.conn = "closed"
  /\ Set(i, [s EXCEPT !.pinger = "done"])
  /\ Frame

\* The pinger goroutine of an earlier iteration: its connCtx is cancelled.
OrphanPingerExit(i) ==
  LET s == subscribers[i] IN
  /\ s.orphanPingers > 0
  /\ Set(i, [s EXCEPT !.orphanPingers = @ - 1])
  /\ Frame

\* cleanCache: case <-ctx.Done() / case <-s.stopCh: return
CleanerExit(i) ==
  LET s == subscribers[i] IN
  /\ s.cleaner = "run"
  /\ s.stopCh \/ ctxDone
  /\ Set(i, [s EXCEPT !.cleaner = "done"])
  /\ Frame

\* cleanCache: case <-ticker.C: delete the entries older than a minute.
CleanerSweep(i) ==
  LET s == subscribers[i] IN
  /\ s.cleaner = "run"
  /\ s.tickPending
  /\ Set(i, [s EXCEPT !.tickPending = FALSE, !.dedupeCache = cleanCacheSweep(s.dedupeCache, now)])
  /\ Frame

\* Time passes; a running cleaner's ticker fires on every full SweepInterval.
Tick ==
  /\ now + TimeStep <= MaxTime
  /\ now' = now + TimeStep
  /\ subscribers' = [i \in Insts |->
       LET s == subscribers[i] IN
       IF s.cleaner = "run" /\ (now + TimeStep - s.cleanStart) \div SweepInterval > (now - s.cleanStart) \div SweepInterval
         THEN [s EXCEPT !.tickPending = TRUE]
         ELSE s]
  /\ UNCHANGED <<subs, nInst, ctxDone, lastCall, an, probe, handler>>

\* The process-wide context is cancelled (SIGINT, SIGTERM, /kill).
CancelCtx ==
  /\ ~ctxDone
  /\ ctxDone' = TRUE
  /\ UNCHANGED <<subs, nInst, subscribers, now, lastCall, an, probe, handler>>

(***************************************************************************)
(* tracker.Manager: every method runs under m.mu, so each is one step. The  *)
(* caller's own state (the Telegram Handler's) is the caller's to frame.    *)
(***************************************************************************)
\* Track as it would be without the "already exists" check.
TrackAlways(addr) ==
  /\ nInst < MaxInst
  /\ nInst' = nInst + 1
  /\ subscribers' = [subscribers EXCEPT ![nInst + 1] = NewSubscriber(addr)]
  /\ subs' = [subs EXCEPT ![addr] = nInst + 1]
  /\ lastCall' = [op |-> "Track", found |-> subs[addr] # NoInst, err |-> FALSE]
  /\ UNCHANGED <<ctxDone, now, an, probe>>

\* Manager.Track
Track(addr) ==
  IF subs[addr] # NoInst
    THEN /\ lastCall' = [op |-> "Track", found |-> TRUE, err |-> FALSE]
         /\ UNCHANGED <<subs, nInst, subscribers, ctxDone, now, an, probe>>
    ELSE /\ nInst < MaxInst
         /\ nInst' = nInst + 1
         /\ subscribers' = [subscribers EXCEPT ![nInst + 1] = NewSubscriber(addr)]
         /\ subs' = [subs EXCEPT ![addr] = nInst + 1]
         /\ lastCall' = [op |-> "Track", found |-> FALSE, err |-> FALSE]
         /\ UNCHANGED <<ctxDone, now, an, probe>>

\* Untrack as it would be without sub.Stop().
UntrackNoStop(addr) ==
  /\ subs' = [subs EXCEPT ![addr] = NoInst]
  /\ lastCall' = [op |-> "Untrack", found |-> subs[addr] # NoInst, err |-> FALSE]
  /\ UNCHANGED <<nInst, subscribers, ctxDone, now, an, probe>>

\* Manager.Untrack
Untrack(addr) ==
  IF subs[addr] # NoInst
    THEN /\ subscribers' = [subscribers EXCEPT ![subs[addr]] = Stop(@)]
         /\ subs' = [subs EXCEPT ![addr] = NoInst]
         /\ lastCall' = [op |-> "Untrack", found |-> TRUE, err |-> FALSE]
         /\ UNCHANGED <<nInst, ctxDone, now, an, probe>>
    ELSE /\ lastCall' = [op |-> "Untrack", found |-> FALSE, err |-> FALSE]
         /\ UNCHANGED <<subs, nInst, subscribers, ctxDone, now, an, probe>>

\* Manager.StopAll
StopAll ==
  /\ subscribers' = [i \in Insts |->
       IF \E a \in Addrs : subs[a] = i THEN Stop(subscribers[i]) ELSE subscribers[i]]
  /\ lastCall' = [op |-> "StopAll", found |-> FALSE, err |-> FALSE]
  /\ UNCHANGED <<subs, nInst, ctxDone, now, an, probe>>

(***************************************************************************)
(* analyzer: the enriched transaction (structs.go) and the dust filter      *)
(* (logic.go).                                                              *)
(***************************************************************************)
wsolMint == "So11111111111111111111111111111111111111112"
usdcMint == "EPjFWdd5AufqSSqeM2qN1xzybapC8G4wEGGkZwyTDt1v"
\* filterThreshold = 0.0001, held as the exact fraction 1 / filterThresholdInv
filterThresholdInv == 10000
lamportsPerSol == 1000000000

\* HeliusTransaction.TransactionError (*json.RawMessage): a nil pointer, the
\* JSON text null, or the JSON text of an error.
TransactionErrors == {"nil", "null", "{\"InstructionError\":[0,\"Custom\"]}"}

\* TransactionEvents.Swap == nil
NoSwap == [present |-> FALSE, TokenInputs |-> <<>>, TokenOutputs |-> <<>>]

\* The fields of HeliusTransaction the analyzer reads.
HeliusTransaction(sig, type, txErr, accountData, tokenTransfers, swap) ==
  [Signature |-> sig, Type |-> type, Source |-> "SYSTEM_PROGRAM", Description |-> "",
   TransactionError |-> txErr,
   AccountData |-> accountData, TokenTransfers |-> tokenTransfers, Swap |-> swap]

AccountData(account, change) == [Account |-> account, NativeBalanceChange |-> change]

TokenTransfer(mint, from, to, amount) ==
  [Mint |-> mint, FromUserAccount |-> from, ToUserAccount |-> to, TokenAmount |-> amount]

\* math.Abs
Abs(n) == IF n < 0 THEN -n ELSE n

\* shouldFilter, calculateNetBalanceChanges: the loop over tx.AccountData that
\* takes the first entry of trackedAddr and breaks; 0 when there is none.
RECURSIVE nativeChangeOf(_, _)
nativeChangeOf(accountData, trackedAddr) ==
  IF accountData = <<>> THEN 0
  ELSE IF Head(accountData).Account = trackedAddr THEN Head(accountData).NativeBalanceChange
  ELSE nativeChangeOf(Tail(accountData), trackedAddr)

\* shouldFilter: the loop over tx.TokenTransfers (continue on WSOL, break on
\* the first other transfer from or to trackedAddr).
RECURSIVE hasOtherTokens(_, _)
hasOtherTokens(tokenTransfers, trackedAddr) ==
  IF tokenTransfers = <<>> THEN FALSE
  ELSE IF Head(tokenTransfers).Mint = wsolMint THEN hasOtherTokens(Tail(tokenTransfers), trackedAddr)
  ELSE IF Head(tokenTransfers).FromUserAccount = trackedAddr \/ Head(tokenTransfers).ToUserAccount = trackedAddr THEN TRUE
  ELSE hasOtherTokens(Tail(tokenTransfers), trackedAddr)

\* shouldFilter as it would be with solValueChange <= filterThreshold.
shouldFilterInclusive(tx, trackedAddr) ==
  IF tx.TransactionError # "nil" /\ tx.TransactionError # "null" THEN FALSE
  ELSE /\ ~hasOtherTokens(tx.TokenTransfers, trackedAddr)
       /\ Abs(nativeChangeOf(tx.AccountData, trackedAddr)) * filterThresholdInv <= lamportsPerSol

\* shouldFilter as it would be without the "tt.Mint == wsolMint: continue".
shouldFilterCountsWsol(tx, trackedAddr) ==
  IF tx.TransactionError # "nil" /\ tx.TransactionError # "null" THEN FALSE
  ELSE /\ \A k \in 1..Len(tx.TokenTransfers) :
            /\ tx.TokenTransfers[k].FromUserAccount # trackedAddr
            /\ tx.TokenTransfers[k].ToUserAccount # trackedAddr
       /\ Abs(nativeChangeOf(tx.AccountData, trackedAddr)) * filterThresholdInv < lamportsPerSol

\* shouldFilter: float64(nativeChange) / lamportsPerSol < filterThreshold is
\* compared as the exact fractions |nativeChange| / 10^9 < 1 / 10^4.
shouldFilter(tx, trackedAddr) ==
  IF tx.TransactionError # "nil" /\ tx.TransactionError # "null" THEN FALSE
  ELSE /\ ~hasOtherTokens(tx.TokenTransfers, trackedAddr)
       /\ Abs(nativeChangeOf(tx.AccountData, trackedAddr)) * filterThresholdInv < lamportsPerSol

\* Sequences over S of length at most n.
SeqsUpTo(S, n) == UNION {[1..k -> S] : k \in 0..n}

\* What shouldFilter is called on: up to MaxAccountData account entries with
\* changes at and around the threshold, up to MaxTransfers token transfers.
NativeChanges == {-100000, -5000, 99999}

FilterAccountData ==
  SeqsUpTo({AccountData(a, n) : a \in Addrs, n \in NativeChanges}, MaxAccountData)

FilterTransfers ==
  SeqsUpTo({TokenTransfer(m, f, t, 1) : m \in {wsolMint, usdcMint}, f \in Addrs, t \in Addrs}, MaxTransfers)

\* No function is under test.
NoProbe == [fn |-> "", args |-> <<>>, called |-> FALSE, result |-> FALSE]

\* shouldFilter(tx, trackedAddr) is called and returns.
CallShouldFilter ==
  /\ probe.fn = "shouldFilter"
  /\ ~probe.called
  /\ probe' = [probe EXCEPT !.called = TRUE, !.result = shouldFilter(probe.args[1], probe.args[2])]
  /\ UNCHANGED <<subs, nInst, subscribers, ctxDone, now, lastCall, an, handler>>

(***************************************************************************)
(* analyzer: fetching the enriched transaction (fetch.go).                  *)
(***************************************************************************)
\* A mint neither analyzer.New nor isPriceTracked knows.
bonkMint == "DezXAZ8z7PnrnRJjz3wXBoRgixCa6xjnB7YaB1pPB263"

RawTokenAmount(tokenAmount, decimals) == [TokenAmount |-> tokenAmount, Decimals |-> decimals]

TokenSwapAmount(user, mint, raw) == [UserAccount |-> user, Mint |-> mint, RawTokenAmount |-> raw]

SwapEvent(inputs, outputs) == [present |-> TRUE, TokenInputs |-> inputs, TokenOutputs |-> outputs]

\* The transactions the enrichment service answers with. Token amounts are
\* whole numbers of the unit the field is in (lamports for wrapped SOL).
TxFeeOnly ==
  HeliusTransaction(LongSignature, "UNKNOWN", "nil", <<AccountData("addrA", -5000)>>, <<>>, NoSwap)

TxSend ==
  HeliusTransaction(LongSignature, "TRANSFER", "null",
    <<AccountData("addrA", -200000), AccountData("addrB", 195000)>>, <<>>, NoSwap)

TxToken ==
  HeliusTransaction(LongSignature, "TRANSFER", "nil", <<AccountData("addrA", -5000)>>,
    <<TokenTransfer(bonkMint, "addrA", "addrB", 7)>>, NoSwap)

TxSwap ==
  [HeliusTransaction(LongSignature, "SWAP", "nil", <<AccountData("addrA", -150000)>>,
     <<TokenTransfer(wsolMint, "addrA", "addrB", 145000), TokenTransfer(usdcMint, "addrB", "addrA", 25)>>,
     SwapEvent(<<TokenSwapAmount("addrA", wsolMint, RawTokenAmount(145000, 9))>>,
               <<TokenSwapAmount("addrA", usdcMint, RawTokenAmount(25000000, 6))>>))
   EXCEPT !.Source = "JUPITER",
          !.Description = "9WzDXwBbmkg8ZTbNMqUxvQRAyrZzDsGYdLVL9zYtAWWM swapped SOL for 25 USDC"]

TxFailed ==
  HeliusTransaction(LongSignature, "UNKNOWN", "{\"InstructionError\":[0,\"Custom\"]}",
    <<AccountData("addrA", -5000)>>, <<>>, NoSwap)

TxShortSig ==
  HeliusTransaction(ShortSignature, "TRANSFER", "nil", <<AccountData("addrA", -200000)>>, <<>>, NoSwap)

TxEmptyMint ==
  HeliusTransaction(LongSignature, "TRANSFER", "nil", <<AccountData("addrA", -5000)>>,
    <<TokenTransfer("", "addrB", "addrA", 3)>>, NoSwap)

SampleTxs == {TxFeeOnly, TxSend, TxToken, TxSwap, TxFailed, TxShortSig, TxEmptyMint}

\* What client.Do and the response of the enrichment service can be: a
\* transport error, or a status with a body that decodes to a list or not.
HttpResponse(transportErr, status, decodes, transactions) ==
  [transportErr |-> transportErr, StatusCode |-> status, decodes |-> decodes, transactions |-> transactions]

HeliusResponses ==
  {HttpResponse(TRUE, 0, FALSE, <<>>),
   HttpResponse(FALSE, 500, FALSE, <<>>),
   HttpResponse(FALSE, 500, TRUE, <<TxSend>>),
   HttpResponse(FALSE, 200, FALSE, <<>>),
   HttpResponse(FALSE, 200, TRUE, <<>>)}
  \cup {HttpResponse(FALSE, 200, TRUE, <<tx>>) : tx \in SampleTxs}

\* fetchHeliusTransaction as it would be without the StatusCode check.
fetchHeliusTransactionAnyStatus(resp) ==
  IF resp.transportErr THEN [err |-> TRUE, tx |-> TxFeeOnly]
  ELSE IF ~resp.decodes \/ Len(resp.transactions) = 0 THEN [err |-> TRUE, tx |-> TxFeeOnly]
  ELSE [err |-> FALSE, tx |-> resp.transactions[1]]

\* fetchHeliusTransaction: (tx, err); tx is meaningless when err is set.
fetchHeliusTransaction(resp) ==
  IF resp.transportErr THEN [err |-> TRUE, tx |-> TxFeeOnly]
  ELSE IF resp.StatusCode # 200 THEN [err |-> TRUE, tx |-> TxFeeOnly]
  ELSE IF ~resp.decodes \/ Len(resp.transactions) = 0 THEN [err |-> TRUE, tx |-> TxFeeOnly]
  ELSE [err |-> FALSE, tx |-> resp.transactions[1]]

(***************************************************************************)
(* analyzer: the metadata cache and the price cache (sync.Map): functions   *)
(* whose domain is the set of keys stored.                                  *)
(***************************************************************************)
TokenMetadata(symbol, decimals) == [Symbol |-> symbol, Decimals |-> decimals]

\* sync.Map.Store
Store(cache, key, value) ==
  [k \in DOMAIN cache \cup {key} |-> IF k = key THEN value ELSE cache[k]]

\* shortenAddress
shortenAddress(addr) ==
  IF Len(addr) <= 8 THEN "<code>" \o addr \o "</code>"
  ELSE "<code>" \o SubSeq(addr, 1, 4) \o "..." \o SubSeq(addr, Len(addr) - 3, Len(addr)) \o "</code>"

\* ensureMetadataIsCached: the entry stored when fetchOnChainMetadata fails.
FallbackMetadata(mint) == TokenMetadata("Mint(" \o shortenAddress(mint) \o ")", 6)

splTokenProgramID == "TokenkegQfeZyiNwAJbNbGKPFXCWuBvf9Ss623VQ5DA"
\* An owner other than the SPL token program (Token-2022).
otherProgramID == "TokenzQdBNbLqP5VEhdkAS6EPFLC1PHnBqCXEpPxuEb"
\* fetchOnChainMetadata: const headerOffset = 65
headerOffset == 65

LowerCase == "abcdefghijklmnopqrstuvwxyz"
UpperCase == "ABCDEFGHIJKLMNOPQRSTUVWXYZ"

\* Bytes are the numbers 0..255; a byte slice is a sequence of them.
Zeros(n) == [k \in 1..n |-> 0]

\* A uint32 in little-endian order, as Borsh writes a length.
U32LE(n) == <<n % 256, (n \div 256) % 256, (n \div 65536) % 256, (n \div 16777216) % 256>>

\* binary.LittleEndian.Uint32
Uint32(b) == b[1] + b[2] * 256 + b[3] * 65536 + b[4] * 16777216

\* string(b) for one ASCII byte.
AsciiChar(b) ==
  IF b >= 65 /\ b <= 90 THEN SubSeq(UpperCase, b - 64, b - 64)
  ELSE IF b >= 97 /\ b <= 122 THEN SubSeq(LowerCase, b - 96, b - 96)
  ELSE "?"

\* string(bytes)
RECURSIVE BytesToString(_)
BytesToString(bytes) ==
  IF bytes = <<>> THEN "" ELSE AsciiChar(Head(bytes)) \o BytesToString(Tail(bytes))

\* bytes.TrimRight(b, "\x00")
RECURSIVE TrimRightNul(_)
TrimRightNul(bytes) ==
  IF bytes = <<>> THEN <<>>
  ELSE IF bytes[Len(bytes)] = 0 THEN TrimRightNul(SubSeq(bytes, 1, Len(bytes) - 1))
  ELSE bytes

\* base64.StdEncoding.DecodeString returns dbuf[:n] of a buffer of
\* DecodedLen(len(s)) bytes: the capacity of the slice of n decoded bytes.
DecodedCap(n) == 3 * ((n + 2) \div 3)

\* The data of a Metaplex metadata account: 65 bytes of key, update authority
\* and mint, then the Borsh strings name (padded to 32 bytes) and symbol
\* (padded to 10 bytes), then the rest of the record.
MetaplexRecord(name, symbol) ==
  Zeros(headerOffset) \o U32LE(32) \o name \o Zeros(32 - Len(name))
    \o U32LE(10) \o symbol \o Zeros(10 - Len(symbol)) \o U32LE(0) \o <<1, 0>>

\* "Bonk" as name and symbol; the symbol after a rename to "Bnk".
RawBonk == MetaplexRecord(<<66, 111, 110, 107>>, <<66, 111, 110, 107>>)
RawRenamed == MetaplexRecord(<<66, 111, 110, 107>>, <<66, 110, 107>>)

\* Records that are cut off or whose lengths point outside the data.
MalformedRecords ==
  {Zeros(headerOffset - 1),
   Zeros(headerOffset),
   Zeros(headerOffset + 1),
   Zeros(headerOffset + 2),
   Zeros(headerOffset) \o U32LE(200) \o <<66, 111>>,
   Zeros(headerOffset) \o U32LE(0) \o <<66>>,
   Zeros(headerOffset) \o U32LE(0) \o U32LE(50) \o <<66, 111>>}

\* What the RPC node answers to the three calls of fetchOnChainMetadata:
\* getAccountInfo of the mint (an error of rpcCall, or owner and decimals),
\* getProgramAccounts (an error, or the number of accounts found) and
\* getAccountInfo of the first account found (an error, or the number of
\* entries of its data, whether the first is base64, and what it decodes to).
RpcAnswer(acctErr, owner, decimals, progErr, pdaCount, pdaErr, dataCount, base64Ok, rawData) ==
  [acctErr |-> acctErr, owner |-> owner, decimals |-> decimals, progErr |-> progErr,
   pdaCount |-> pdaCount, pdaErr |-> pdaErr, dataCount |-> dataCount, base64Ok |-> base64Ok,
   rawData |-> rawData]

GoodAnswer == RpcAnswer(FALSE, splTokenProgramID, 5, FALSE, 1, FALSE, 2, TRUE, RawBonk)

MetadataAnswers ==
  {GoodAnswer,
   [GoodAnswer EXCEPT !.rawData = RawRenamed],
   [GoodAnswer EXCEPT !.acctErr = TRUE],
   [GoodAnswer EXCEPT !.owner = otherProgramID],
   [GoodAnswer EXCEPT !.owner = ""],
   [GoodAnswer EXCEPT !.progErr = TRUE],
   [GoodAnswer EXCEPT !.pdaCount = 0],
   [GoodAnswer EXCEPT !.pdaErr = TRUE],
   [GoodAnswer EXCEPT !.dataCount = 0],
   [GoodAnswer EXCEPT !.base64Ok = FALSE]}
  \cup {[GoodAnswer EXCEPT !.rawData = raw] : raw \in MalformedRecords}

NoMetadata == TokenMetadata("", 0)

\* fetchOnChainMetadata, step 4: the Borsh data after the length test. The
\* slice rawData[65:69] is taken whenever len(rawData) >= 65; it panics when 69
\* exceeds the capacity of rawData and reads the zero bytes past its length
\* otherwise.
parseSymbol(rawData, decimals) ==
  LET n == Len(rawData)
      padded == rawData \o Zeros(DecodedCap(n) - n)
      nameLen == Uint32(SubSeq(padded, headerOffset + 1, headerOffset + 4))
      symbolOffset == headerOffset + 4 + nameLen
      symbolLen == Uint32(SubSeq(rawData, symbolOffset + 1, symbolOffset + 4))
      symbolEnd == symbolOffset + 4 + symbolLen
  IN
  IF headerOffset + 4 > DecodedCap(n) THEN [err |-> FALSE, panics |-> TRUE, meta |-> NoMetadata]
  ELSE IF symbolOffset + 4 > n THEN [err |-> TRUE, panics |-> FALSE, meta |-> NoMetadata]
  ELSE IF symbolEnd > n THEN [err |-> TRUE, panics |-> FALSE, meta |-> NoMetadata]
  ELSE [err |-> FALSE, panics |-> FALSE,
        meta |-> TokenMetadata(BytesToString(TrimRightNul(SubSeq(rawData, symbolOffset + 5, symbolEnd))), decimals)]

\* fetchOnChainMetadata: (meta, err) for an answer of the RPC node, or a panic.
fetchOnChainMetadata(answer) ==
  IF answer.acctErr THEN [err |-> TRUE, panics |-> FALSE, meta |-> NoMetadata]
  ELSE IF answer.owner # splTokenProgramID THEN [err |-> TRUE, panics |-> FALSE, meta |-> NoMetadata]
  ELSE IF answer.progErr THEN [err |-> TRUE, panics |-> FALSE, meta |-> NoMetadata]
  ELSE IF answer.pdaCount = 0 THEN [err |-> TRUE, panics |-> FALSE, meta |-> NoMetadata]
  ELSE IF answer.pdaErr THEN [err |-> TRUE, panics |-> FALSE, meta |-> NoMetadata]
  ELSE IF answer.dataCount < 1 THEN [err |-> TRUE, panics |-> FALSE, meta |-> NoMetadata]
  ELSE IF ~answer.base64Ok THEN [err |-> TRUE, panics |-> FALSE, meta |-> NoMetadata]
  ELSE IF Len(answer.rawData) < headerOffset THEN [err |-> TRUE, panics |-> FALSE, meta |-> NoMetadata]
  ELSE parseSymbol(answer.rawData, answer.decimals)

\* ensureMetadataIsCached: the mints of the token transfers with a non-empty
\* mint and of every leg of the swap event.
mintsOf(tx) ==
  {tx.TokenTransfers[k].Mint : k \in {j \in 1..Len(tx.TokenTransfers) : tx.TokenTransfers[j].Mint # ""}}
  \cup {tx.Swap.TokenInputs[k].Mint : k \in 1..Len(tx.Swap.TokenInputs)}
  \cup {tx.Swap.TokenOutputs[k].Mint : k \in 1..Len(tx.Swap.TokenOutputs)}

\* isPriceTracked: the CoinGecko id of a mint, "" when it has none.
isPriceTracked(mint) ==
  IF mint = wsolMint THEN "solana" ELSE IF mint = usdcMint THEN "usd-coin" ELSE ""

\* GetPriceUSD: time.Since(LastFetched) < 60*time.Second
PriceTTL == 60

cachedPrice(price, lastFetched) == [Price |-> price, LastFetched |-> lastFetched]

\* What the price service answers: a transport error, a body without the
\* coin's usd entry (or one that does not decode), or a price.
PriceAnswers ==
  {[transportErr |-> TRUE, has |-> FALSE, usd |-> 0],
   [transportErr |-> FALSE, has |-> FALSE, usd |-> 0],
   [transportErr |-> FALSE, has |-> TRUE, usd |-> 150]}

\* GetPriceUSD as it would be if a failed fetch fell back on the stale quote.
GetPriceUSDStale(cache, coinID, answer, t) ==
  IF coinID \in DOMAIN cache /\ t - cache[coinID].LastFetched < PriceTTL
    THEN [price |-> cache[coinID].Price, ok |-> TRUE, cache |-> cache, fetched |-> FALSE]
  ELSE IF ~answer.transportErr /\ answer.has
    THEN [price |-> answer.usd, ok |-> TRUE, fetched |-> TRUE,
          cache |-> Store(cache, coinID, cachedPrice(answer.usd, t))]
  ELSE IF coinID \in DOMAIN cache
    THEN [price |-> cache[coinID].Price, ok |-> TRUE, cache |-> cache, fetched |-> TRUE]
  ELSE [price |-> 0, ok |-> FALSE, cache |-> cache, fetched |-> TRUE]

\* PriceOracle.GetPriceUSD at time t: (price, ok) and the cache it leaves;
\* answer is consulted only when the cache has no fresh entry. History kept
\* for the properties: fetched tells whether httpClient.Do was called.
GetPriceUSD(cache, coinID, answer, t) ==
  IF coinID \in DOMAIN cache /\ t - cache[coinID].LastFetched < PriceTTL
    THEN [price |-> cache[coinID].Price, ok |-> TRUE, cache |-> cache, fetched |-> FALSE]
  ELSE IF answer.transportErr THEN [price |-> 0, ok |-> FALSE, cache |-> cache, fetched |-> TRUE]
  ELSE IF answer.has
    THEN [price |-> answer.usd, ok |-> TRUE, fetched |-> TRUE,
          cache |-> Store(cache, coinID, cachedPrice(answer.usd, t))]
  ELSE [price |-> 0, ok |-> FALSE, cache |-> cache, fetched |-> TRUE]

\* The price service as GetPriceUSD's callers may meet it over time: the
\* answers of PriceAnswers and a second quote.
PriceQuotes ==
  PriceAnswers \cup {[transportErr |-> FALSE, has |-> TRUE, usd |-> 152]}

\* The CoinGecko ids isPriceTracked and calculateNetBalanceChanges ask for.
CoinIDs == {"solana", "usd-coin"}

\* oracle.GetPriceUSD(ctx, coinID) is called at the current time and returns.
CallGetPriceUSD(coinID, answer) ==
  LET r == GetPriceUSD(an.priceCache, coinID, answer, now) IN
  /\ probe' = [fn |-> "GetPriceUSD", args |-> <<coinID, answer, an.priceCache, now>>,
               called |-> TRUE, result |-> r]
  /\ an' = [an EXCEPT !.priceCache = r.cache]
  /\ UNCHANGED <<subs, nInst, subscribers, ctxDone, now, lastCall, handler>>

\* calculateNetBalanceChanges, step 1: tokenDeltas[mint] for the tracked user.
RECURSIVE tokenDelta(_, _, _)
tokenDelta(tokenTransfers, mint, trackedAddr) ==
  IF tokenTransfers = <<>> THEN 0
  ELSE LET tt == Head(tokenTransfers) IN
       (IF tt.Mint = mint /\ tt.FromUserAccount = trackedAddr THEN -tt.TokenAmount ELSE 0)
       + (IF tt.Mint = mint /\ tt.ToUserAccount = trackedAddr THEN tt.TokenAmount ELSE 0)
       + tokenDelta(Tail(tokenTransfers), mint, trackedAddr)

\* calculateNetBalanceChanges: the keys of tokenDeltas.
deltaMints(tokenTransfers, trackedAddr) ==
  {tokenTransfers[k].Mint : k \in {j \in 1..Len(tokenTransfers) :
      trackedAddr \in {tokenTransfers[j].FromUserAccount, tokenTransfers[j].ToUserAccount}}}

\* calculateNetBalanceChanges: wsolInflowFromOther
wsolInflowFromOther(tokenTransfers, trackedAddr) ==
  \E k \in 1..Len(tokenTransfers) :
    /\ tokenTransfers[k].ToUserAccount = trackedAddr
    /\ tokenTransfers[k].Mint = wsolMint
    /\ tokenTransfers[k].FromUserAccount # trackedAddr

\* totalSolChange as it would be if the WSOL delta of a true inflow were added
\* whatever its sign.
totalSolChangeSigned(tx, trackedAddr) ==
  LET wsolDelta == tokenDelta(tx.TokenTransfers, wsolMint, trackedAddr) IN
  nativeChangeOf(tx.AccountData, trackedAddr)
  + (IF wsolInflowFromOther(tx.TokenTransfers, trackedAddr) THEN wsolDelta ELSE 0)

\* calculateNetBalanceChanges, steps 2 and 3: totalSolChange, in lamports.
totalSolChange(tx, trackedAddr) ==
  LET wsolDelta == tokenDelta(tx.TokenTransfers, wsolMint, trackedAddr) IN
  nativeChangeOf(tx.AccountData, trackedAddr)
  + (IF wsolInflowFromOther(tx.TokenTransfers, trackedAddr) /\ wsolDelta > 0 THEN wsolDelta ELSE 0)

\* The orders in which a range over a map with key set S may visit the keys.
Orders(S) == {f \in [1..Cardinality(S) -> S] : \A a, b \in 1..Cardinality(S) : f[a] = f[b] => a = b}

\* One item calculateNetBalanceChanges or parseSwapEvent has still to format.
Item(rule, mint, delta, decimals) == [rule |-> rule, Mint |-> mint, delta |-> delta, decimals |-> decimals]

\* calculateNetBalanceChanges: the SOL item if totalSolChange is not zero, then
\* the other mints of tokenDeltas in the order the map range visits them.
netItems(tx, trackedAddr, order) ==
  (IF totalSolChange(tx, trackedAddr) # 0
     THEN <<Item("sol", "SOL", totalSolChange(tx, trackedAddr), 9)>> ELSE <<>>)
  \o [k \in 1..Len(order) |-> Item("token", order[k], tokenDelta(tx.TokenTransfers, order[k], trackedAddr), 0)]

\* swapItems as it would be without the item.UserAccount == trackedAddr tests.
swapItemsUnfiltered(tx, trackedAddr) ==
  [k \in 1..Len(tx.Swap.TokenInputs) |->
     Item("swapIn", tx.Swap.TokenInputs[k].Mint, -tx.Swap.TokenInputs[k].RawTokenAmount.TokenAmount,
          tx.Swap.TokenInputs[k].RawTokenAmount.Decimals)]
  \o [k \in 1..Len(tx.Swap.TokenOutputs) |->
     Item("swapOut", tx.Swap.TokenOutputs[k].Mint, tx.Swap.TokenOutputs[k].RawTokenAmount.TokenAmount,
          tx.Swap.TokenOutputs[k].RawTokenAmount.Decimals)]

\* parseSwapEvent with a swap event: the input legs of the tracked user, then
\* its output legs, in event order; parseAmount keeps the raw amount and its
\* decimals.
swapItems(tx, trackedAddr) ==
  LET ins == SelectSeq(tx.Swap.TokenInputs, LAMBDA it : it.UserAccount = trackedAddr)
      outs == SelectSeq(tx.Swap.TokenOutputs, LAMBDA it : it.UserAccount = trackedAddr)
  IN
  [k \in 1..Len(ins) |-> Item("swapIn", ins[k].Mint, -ins[k].RawTokenAmount.TokenAmount, ins[k].RawTokenAmount.Decimals)]
  \o [k \in 1..Len(outs) |-> Item("swapOut", outs[k].Mint, outs[k].RawTokenAmount.TokenAmount, outs[k].RawTokenAmount.Decimals)]

\* An item's symbol: "SOL"; for a netted token the cached symbol or
\* Mint(<first four characters>...); for a swap leg the cached symbol or
\* Mint(shortenAddress(mint)).
itemSymbol(item, metadataMap) ==
  IF item.rule = "sol" THEN "SOL"
  ELSE IF item.Mint \in DOMAIN metadataMap THEN metadataMap[item.Mint].Symbol
  ELSE IF item.rule = "token" THEN "Mint(" \o SubSeq(item.Mint, 1, 4) \o "...)"
  ELSE "Mint(" \o shortenAddress(item.Mint) \o ")"

\* calculateNetBalanceChanges: mint[:4] on a mint of fewer than four bytes.
itemPanics(item, metadataMap) ==
  item.rule = "token" /\ item.Mint \notin DOMAIN metadataMap /\ Len(item.Mint) < 4

\* calculateNetBalanceChanges: if math.Abs(delta) < 1e-18 { continue }
itemSkipped(item) == item.rule = "token" /\ item.delta = 0

\* The CoinGecko id the item is priced with, "" for none.
itemCoin(item) == IF item.rule = "sol" THEN "solana" ELSE isPriceTracked(item.Mint)

\* Whether the item goes to received (otherwise to sent).
itemReceived(item) ==
  IF item.rule = "swapIn" THEN FALSE
  ELSE IF item.rule = "swapOut" THEN TRUE
  ELSE item.delta > 0

\* The formatted entry: amount / 10^decimals, the symbol and, when the oracle
\* gave a price, the price the USD figure is computed with.
Formatted(item, metadataMap, price) ==
  [amount |-> Abs(item.delta), decimals |-> item.decimals,
   symbol |-> itemSymbol(item, metadataMap),
   usd |-> IF price.ok THEN <<price.price>> ELSE <<>>]

\* calculateNetBalanceChanges, steps 4 and 5, and the two loops of
\* parseSwapEvent: the items are formatted in turn, each priced asset with
\* GetPriceUSD at time t against the price service's answer, and appended to
\* sent or received; a netted token with a zero delta is skipped; mint[:4]
\* may panic.
RECURSIVE formatItems(_, _, _, _, _)
formatItems(items, metadataMap, cache, answer, t) ==
  IF items = <<>> THEN [sent |-> <<>>, received |-> <<>>, panics |-> FALSE, cache |-> cache]
  ELSE LET item == Head(items) IN
       IF itemSkipped(item) THEN formatItems(Tail(items), metadataMap, cache, answer, t)
       ELSE IF itemPanics(item, metadataMap)
         THEN [sent |-> <<>>, received |-> <<>>, panics |-> TRUE, cache |-> cache]
       ELSE LET coin == itemCoin(item)
                price == IF coin = "" THEN [price |-> 0, ok |-> FALSE, cache |-> cache, fetched |-> FALSE]
                         ELSE GetPriceUSD(cache, coin, answer, t)
                f == Formatted(item, metadataMap, price)
                rest == formatItems(Tail(items), metadataMap, price.cache, answer, t)
            IN [sent |-> IF itemReceived(item) THEN rest.sent ELSE <<f>> \o rest.sent,
                received |-> IF itemReceived(item) THEN <<f>> \o rest.received ELSE rest.received,
                panics |-> rest.panics,
                cache |-> rest.cache]

\* calculateNetBalanceChanges(tx, trackedAddr, metadataCache, oracle): (sent,
\* received), or a panic, and the price cache it leaves; order is the order in
\* which the range over tokenDeltas visits the mints.
calculateNetBalanceChanges(tx, trackedAddr, metadataCache, order, cache, answer, t) ==
  formatItems(netItems(tx, trackedAddr, order), metadataCache, cache, answer, t)

NativeTransfer(from, to, amount) == [FromUserAccount |-> from, ToUserAccount |-> to, Amount |-> amount]

\* A HeliusTransaction with its nativeTransfers, a field the analyzer never reads.
WithNativeTransfers(tx, nativeTransfers) ==
  [Signature |-> tx.Signature, Type |-> tx.Type, Source |-> tx.Source, Description |-> tx.Description,
   TransactionError |-> tx.TransactionError, AccountData |-> tx.AccountData,
   TokenTransfers |-> tx.TokenTransfers, NativeTransfers |-> nativeTransfers, Swap |-> tx.Swap]

\* What calculateNetBalanceChanges is called on: up to MaxAccountData account
\* entries, up to MaxTransfers token transfers of wrapped SOL, USDC and a
\* token without cached metadata between the two addresses (self-transfers
\* included), and native transfers.
NetAccountData ==
  SeqsUpTo({AccountData(a, n) : a \in Addrs, n \in {-5000, 300000}}, MaxAccountData)

NetTransfers ==
  SeqsUpTo({TokenTransfer(m, f, t, n) : m \in {wsolMint, usdcMint, bonkMint}, f \in Addrs, t \in Addrs, n \in {1, 2}},
           MaxTransfers)

NetNativeTransfers ==
  {<<>>, <<NativeTransfer("addrA", "addrB", 1000)>>, <<NativeTransfer("addrB", "addrA", 1000)>>}

\* calculateNetBalanceChanges(tx, trackedAddr, metadataMap, oracle) is called
\* and returns.
CallCalculateNetBalanceChanges(order, answer) ==
  LET tx == probe.args[1]
      trackedAddr == probe.args[2]
      r == calculateNetBalanceChanges(tx, trackedAddr, an.metadataCache, order, an.priceCache, answer, now)
  IN
  /\ probe.fn = "calculateNetBalanceChanges"
  /\ ~probe.called
  /\ order \in Orders(deltaMints(tx.TokenTransfers, trackedAddr) \ {wsolMint})
  /\ probe' = [probe EXCEPT !.called = TRUE,
                            !.result = [sent |-> r.sent, received |-> r.received, panics |-> r.panics]]
  /\ an' = [an EXCEPT !.priceCache = r.cache]
  /\ UNCHANGED <<subs, nInst, subscribers, ctxDone, now, lastCall, handler>>

(***************************************************************************)
(* float64 (TokenTransfer.TokenAmount, tokenDeltas): a finite value is a    *)
(* sign and a magnitude, the magnitude a whole number of units of 2^-56     *)
(* written in binary, lowest bit first, without high zero bits. A sum is    *)
(* the exact sum rounded to 53 significant bits, ties to even. Whole        *)
(* amounts up to 2^53 add exactly, which is why the integer sums of         *)
(* tokenDelta model them.                                                   *)
(***************************************************************************)
F64Unit == 56
F64MantissaBits == 53

RECURSIVE NatBits(_)
NatBits(n) == IF n = 0 THEN <<>> ELSE <<n % 2>> \o NatBits(n \div 2)

ZeroBits(k) == [j \in 1..k |-> 0]

Bit(a, k) == IF k <= Len(a) THEN a[k] ELSE 0

Rest(a) == IF a = <<>> THEN <<>> ELSE Tail(a)

RECURSIVE Normalize(_)
Normalize(a) == IF a = <<>> \/ a[Len(a)] = 1 THEN a ELSE Normalize(SubSeq(a, 1, Len(a) - 1))

\* a + b + carry
RECURSIVE BitsAdd(_, _, _)
BitsAdd(a, b, carry) ==
  IF a = <<>> /\ b = <<>> THEN (IF carry = 1 THEN <<1>> ELSE <<>>)
  ELSE LET s == Bit(a, 1) + Bit(b, 1) + carry IN
       <<s % 2>> \o BitsAdd(Rest(a), Rest(b), s \div 2)

\* a - b - borrow, for a >= b + borrow, high zero bits kept
RECURSIVE BitsSub(_, _, _)
BitsSub(a, b, borrow) ==
  IF a = <<>> THEN <<>>
  ELSE LET d == Bit(a, 1) - Bit(b, 1) - borrow IN
       <<(d + 2) % 2>> \o BitsSub(Rest(a), Rest(b), IF d < 0 THEN 1 ELSE 0)

\* a < b, for a and b without high zero bits, or of the same length
RECURSIVE BitsLess(_, _)
BitsLess(a, b) ==
  IF Len(a) # Len(b) THEN Len(a) < Len(b)
  ELSE IF a = <<>> THEN FALSE
  ELSE IF a[Len(a)] # b[Len(b)] THEN a[Len(a)] < b[Len(b)]
  ELSE BitsLess(SubSeq(a, 1, Len(a) - 1), SubSeq(b, 1, Len(b) - 1))

\* Rounding to nearest, ties to even, of a magnitude to 53 significant bits.
RoundToMantissa(a) ==
  IF Len(a) <= F64MantissaBits THEN a
  ELSE LET k == Len(a) - F64MantissaBits
           kept == SubSeq(a, k + 1, Len(a))
           up == a[k] = 1 /\ (kept[1] = 1 \/ \E j \in 1..(k - 1) : a[j] = 1)
       IN ZeroBits(k) \o (IF up THEN BitsAdd(kept, <<1>>, 0) ELSE kept)

F64(neg, mag) == [neg |-> neg, mag |-> mag]

F64Zero == F64(FALSE, <<>>)

\* The float64 whose magnitude is (hi * 2^28 + lo) * 2^-56, lo < 2^28.
F64FromParts(hi, lo) == F64(FALSE, Normalize(NatBits(lo) \o ZeroBits(28 - Len(NatBits(lo))) \o NatBits(hi)))

\* The float64 values the JSON numbers 0.1, 0.2 and 0.3 decode to:
\* 0x1.999999999999ap-4, 0x1.999999999999ap-3, 0x1.3333333333333p-2.
F64Tenth == F64FromParts(26843545, 161061274)
F64TwoTenths == F64FromParts(53687091, 53687092)
F64ThreeTenths == F64FromParts(80530636, 214748364)

F64Neg(x) == F64(~x.neg, x.mag)

\* x + y in float64
F64Add(x, y) ==
  IF x.neg = y.neg THEN F64(x.neg, RoundToMantissa(BitsAdd(x.mag, y.mag, 0)))
  ELSE IF x.mag = y.mag THEN F64Zero
  ELSE IF BitsLess(x.mag, y.mag) THEN F64(y.neg, RoundToMantissa(Normalize(BitsSub(y.mag, x.mag, 0))))
  ELSE F64(x.neg, RoundToMantissa(Normalize(BitsSub(x.mag, y.mag, 0))))

\* delta > 0
F64Positive(x) == ~x.neg /\ x.mag # <<>>

\* math.Abs(delta) < 1e-18: 1e-18 lies between 0 and one unit of 2^-56.
F64BelowDust(x) == x.mag = <<>>

\* calculateNetBalanceChanges, step 1, on float64 amounts: tokenDeltas[mint]
\* after the loop over the transfers, which subtracts and adds in transfer
\* order starting from acc.
RECURSIVE tokenDeltaF64(_, _, _, _)
tokenDeltaF64(tokenTransfers, mint, trackedAddr, acc) ==
  IF tokenTransfers = <<>> THEN acc
  ELSE LET tt == Head(tokenTransfers)
           a1 == IF tt.Mint = mint /\ tt.FromUserAccount = trackedAddr
                   THEN F64Add(acc, F64Neg(tt.TokenAmount)) ELSE acc
           a2 == IF tt.Mint = mint /\ tt.ToUserAccount = trackedAddr
                   THEN F64Add(a1, tt.TokenAmount) ELSE a1
       IN tokenDeltaF64(Tail(tokenTransfers), mint, trackedAddr, a2)

\* calculateNetBalanceChanges, step 5, on float64 amounts: the mints in the
\* order the range over tokenDeltas visits them, those with a delta under
\* 1e-18 in magnitude skipped, the others appended to received (delta > 0) or
\* sent; an entry is kept as the mint and its delta, before formatting.
emitTokensF64(tokenTransfers, trackedAddr, order) ==
  LET all == [k \in 1..Len(order) |->
                [Mint |-> order[k], delta |-> tokenDeltaF64(tokenTransfers, order[k], trackedAddr, F64Zero)]]
  IN [sent |-> SelectSeq(all, LAMBDA e : ~F64BelowDust(e.delta) /\ ~F64Positive(e.delta)),
      received |-> SelectSeq(all, LAMBDA e : ~F64BelowDust(e.delta) /\ F64Positive(e.delta))]

\* The most token transfers of a transaction with fractional amounts.
MaxLegs == 3

\* Transfers of 0.1, 0.2 or 0.3 of USDC or of another token between the two
\* addresses, self-transfers included.
F64Transfers ==
  SeqsUpTo({TokenTransfer(m, f, t, n) : m \in {usdcMint, bonkMint}, f \in Addrs, t \in Addrs,
                                        n \in {F64Tenth, F64TwoTenths, F64ThreeTenths}},
           MaxLegs)

\* calculateNetBalanceChanges is called on a transaction without account data
\* or wrapped SOL, so that steps 2 to 4 emit nothing, and returns.
CallNetBalanceF64(order) ==
  LET tx == probe.args[1]
      trackedAddr == probe.args[2]
  IN
  /\ probe.fn = "tokenDeltas"
  /\ ~probe.called
  /\ order \in Orders(deltaMints(tx.TokenTransfers, trackedAddr))
  /\ probe' = [probe EXCEPT !.called = TRUE, !.result = emitTokensF64(tx.TokenTransfers, trackedAddr, order)]
  /\ UNCHANGED <<subs, nInst, subscribers, ctxDone, now, lastCall, an, handler>>

Base58 == "123456789ABCDEFGHJKLMNPQRSTUVWXYZabcdefghijkmnopqrstuvwxyz"

IsBase58(c) == \E k \in 1..Len(Base58) : SubSeq(Base58, k, k) = c

\* The length, at most 44, of the run of base58 characters of s that starts at i.
RECURSIVE base58Run(_, _, _)
base58Run(s, i, n) ==
  IF n = 44 \/ i + n > Len(s) \/ ~IsBase58(SubSeq(s, i + n, i + n)) THEN n
  ELSE base58Run(s, i, n + 1)

\* buildSummary: solanaAddressRegex.ReplaceAllStringFunc(tx.Description, ...)
\* from position i on: each leftmost run of 32 to 44 base58 characters becomes
\* its first four characters, "..." and its last four.
RECURSIVE cleanDescription(_, _)
cleanDescription(s, i) ==
  IF i > Len(s) THEN ""
  ELSE LET n == base58Run(s, i, 0) IN
       IF n >= 32
         THEN SubSeq(s, i, i + 3) \o "..." \o SubSeq(s, i + n - 4, i + n - 1) \o cleanDescription(s, i + n)
         ELSE SubSeq(s, i, i) \o cleanDescription(s, i + 1)

\* strings.ToTitle(strings.ToLower(s)) on ASCII: every letter in upper case.
RECURSIVE ToTitleToLower(_)
ToTitleToLower(s) ==
  IF s = "" THEN ""
  ELSE LET c == SubSeq(s, 1, 1)
           ks == {k \in 1..26 : SubSeq(LowerCase, k, k) = c}
       IN (IF ks = {} THEN c ELSE SubSeq(UpperCase, CHOOSE k \in ks : TRUE, CHOOSE k \in ks : TRUE))
          \o ToTitleToLower(SubSeq(s, 2, Len(s)))

\* AnalyzeSignature: the interpretation line, by tx.Type and the two lists.
interpretation(tx, sent, received) ==
  IF tx.Type = "CREATE"
    THEN [kind |-> "CREATE & BUY", source |-> tx.Source,
          token |-> IF Len(received) > 0 THEN <<received[1]>> ELSE <<>>]
  ELSE IF tx.Type = "SWAP" THEN [kind |-> "SWAP", source |-> tx.Source, token |-> <<>>]
  ELSE IF Len(sent) > 0 /\ Len(received) > 0 THEN [kind |-> "INTERACTION", source |-> tx.Source, token |-> <<>>]
  ELSE IF Len(sent) > 0 THEN [kind |-> "SEND", source |-> tx.Source, token |-> <<>>]
  ELSE IF Len(received) > 0 THEN [kind |-> "RECEIVE", source |-> tx.Source, token |-> <<>>]
  ELSE [kind |-> ToTitleToLower(tx.Type), source |-> tx.Source, token |-> <<>>]

\* Analyzer.parseSwapEvent: without a swap event the result of
\* calculateNetBalanceChanges; with one, the legs of the tracked user formatted
\* in event order.
parseSwapEvent(tx, trackedAddr, metadataMap, order, cache, answer, t) ==
  IF ~tx.Swap.present
    THEN calculateNetBalanceChanges(tx, trackedAddr, metadataMap, order, cache, answer, t)
    ELSE formatItems(swapItems(tx, trackedAddr), metadataMap, cache, answer, t)

\* The swap events parseSwapEvent is called on: none, or up to two input and
\* two output legs of either address, in USDC or a token without cached
\* metadata, the same mint on both sides or twice on one side included.
SwapLegs ==
  {TokenSwapAmount(u, m, RawTokenAmount(n, 6)) : u \in Addrs, m \in {usdcMint, bonkMint}, n \in {1, 2}}

SwapEvents ==
  {NoSwap} \cup {SwapEvent(ins, outs) : ins \in SeqsUpTo(SwapLegs, 2), outs \in SeqsUpTo(SwapLegs, 2)}

\* The token transfers that go with them.
SwapTransfers ==
  {<<>>,
   <<TokenTransfer(usdcMint, "addrB", "addrA", 25)>>,
   <<TokenTransfer(wsolMint, "addrA", "addrB", 145000), TokenTransfer(usdcMint, "addrB", "addrA", 25)>>}

\* AnalyzeSignature, case "SWAP": parseSwapEvent and the interpretation. History
\* kept for the properties: the order of the map range and the answer of the
\* price service are appended to the arguments.
CallParseSwapEvent(order, answer) ==
  LET tx == probe.args[1]
      trackedAddr == probe.args[2]
      r == parseSwapEvent(tx, trackedAddr, an.metadataCache, order, an.priceCache, answer, now)
  IN
  /\ probe.fn = "parseSwapEvent"
  /\ ~probe.called
  /\ order \in Orders(deltaMints(tx.TokenTransfers, trackedAddr) \ {wsolMint})
  /\ probe' = [probe EXCEPT !.called = TRUE,
                            !.args = <<tx, trackedAddr, order, answer>>,
                            !.result = [sent |-> r.sent, received |-> r.received, panics |-> r.panics,
                                        headline |-> interpretation(tx, r.sent, r.received)]]
  /\ an' = [an EXCEPT !.priceCache = r.cache]
  /\ UNCHANGED <<subs, nInst, subscribers, ctxDone, now, lastCall, handler>>

\* The summary string: the sequence of the parts written to it; "" is <<>>.
EmptySummary == <<>>

\* buildSummary: tx.Signature[:6] on a signature of fewer than six bytes.
buildSummaryPanics(tx) == Len(tx.Signature) < 6

\* buildSummary: the headline, the cleaned description if there is one, the
\* Sent and Received lines if not empty, the link.
buildSummary(tx, headline, sent, received) ==
  <<headline>>
  \o (IF tx.Description # "" THEN <<cleanDescription(tx.Description, 1)>> ELSE <<>>)
  \o (IF Len(sent) > 0 THEN <<[line |-> "Sent", items |-> sent]>> ELSE <<>>)
  \o (IF Len(received) > 0 THEN <<[line |-> "Received", items |-> received]>> ELSE <<>>)
  \o <<[link |-> tx.Signature,
        text |-> SubSeq(tx.Signature, 1, 6) \o "..." \o SubSeq(tx.Signature, Len(tx.Signature) - 5, Len(tx.Signature))]>>

(***************************************************************************)
(* The Analyzer and the calls of the SignatureNotify callback (handler.go). *)
(***************************************************************************)
\* sync.Map with nothing stored.
EmptyMap == [k \in {} |-> 0]

\* context.Background(): its Done channel never fires.
contextBackground == FALSE

\* http.Client.Do with a request built by NewRequestWithContext: the request
\* is carried out unless its context is done, in which case Do returns the
\* context's error.
requestRuns(done) == ~done

\* No call of SignatureNotify is in progress on a subscriber's Run goroutine.
\* ctxDone tells whether the callback's context (WithTimeout, 20 s) is done.
\* History kept for the properties: stores counts the cache entries the call
\* has stored, sends the messages it has sent, late the network requests
\* carried out although the callback's context was done.
IdleCall ==
  [pc |-> "idle", fetchErr |-> FALSE, tx |-> TxFeeOnly, todo |-> {}, curMint |-> "",
   metadataMap |-> EmptyMap, items |-> <<>>, sent |-> <<>>, received |-> <<>>,
   err |-> FALSE, summary |-> EmptySummary, stores |-> 0, sends |-> 0,
   ctxDone |-> FALSE, late |-> 0]

\* The mints the sample transactions name.
Mints == {wsolMint, usdcMint, bonkMint, ""}

\* analyzer.New: the metadata cache holds WSOL and USDC, the price cache is
\* empty; no callback runs, the bot has sent nothing, nothing has panicked.
\* History kept for the properties: fetches counts, per mint, the calls of
\* fetchOnChainMetadata.
NewAnalyzer ==
  [metadataCache |-> Store(Store(EmptyMap, wsolMint, TokenMetadata("SOL", 9)), usdcMint, TokenMetadata("USDC", 6)),
   priceCache |-> EmptyMap,
   fetches |-> [m \in Mints |-> 0],
   calls |-> [i \in Insts |-> IdleCall],
   outbox |-> <<>>,
   panicked |-> FALSE]

SetCall(i, c) == [an EXCEPT !.calls[i] = c]

AnFrame == UNCHANGED <<subs, nInst, subscribers, ctxDone, now, lastCall, probe, handler>>

\* The callback runs on the Run goroutine of subscriber i, which has called
\* SignatureNotify(cbSig, addr); a panic anywhere has ended the process.
InCallback(i, pc) ==
  /\ ~an.panicked
  /\ subscribers[i].runPc = "callback"
  /\ an.calls[i].pc = pc

\* The callback calls AnalyzeSignature: fetchHeliusTransaction, the error
\* return, shouldFilter and its return of ("", nil), and the first loops of
\* ensureMetadataIsCached, which collect the mints.
AnalyzeFetch(i, resp) ==
  LET r == fetchHeliusTransaction(resp)
      c == an.calls[i]
  IN
  /\ InCallback(i, "idle")
  /\ ~requestRuns(c.ctxDone) => resp.transportErr
  /\ an' = SetCall(i, IF r.err
                        THEN [c EXCEPT !.pc = "result", !.fetchErr = TRUE, !.err = TRUE]
                      ELSE IF shouldFilter(r.tx, subscribers[i].addr)
                        THEN [c EXCEPT !.pc = "result", !.tx = r.tx]
                        ELSE [c EXCEPT !.pc = "metadata", !.tx = r.tx, !.todo = mintsOf(r.tx)])
  /\ AnFrame

\* AnalyzeMetaLoad as it would be without the metadataCache.Load test.
AnalyzeMetaLoadNoCache(i, mint) ==
  LET c == an.calls[i] IN
  /\ InCallback(i, "metadata")
  /\ mint \in c.todo
  /\ an' = [an EXCEPT !.calls[i] = [c EXCEPT !.pc = "metaFetch", !.curMint = mint],
                      !.fetches[mint] = @ + 1]
  /\ UNCHANGED <<subs, nInst, subscribers, ctxDone, now, lastCall, probe, handler>>

\* ensureMetadataIsCached: the range over mints reaches mint; metadataCache.Load;
\* on a miss fetchOnChainMetadata is called.
AnalyzeMetaLoad(i, mint) ==
  LET c == an.calls[i] IN
  /\ InCallback(i, "metadata")
  /\ mint \in c.todo
  /\ an' = IF mint \in DOMAIN an.metadataCache
             THEN SetCall(i, [c EXCEPT !.todo = @ \ {mint}])
             ELSE [an EXCEPT !.calls[i] = [c EXCEPT !.pc = "metaFetch", !.curMint = mint],
                             !.fetches[mint] = @ + 1]
  /\ AnFrame

\* ensureMetadataIsCached: fetchOnChainMetadata returns; Store of the metadata,
\* or of the fallback on an error; a panic in fetchOnChainMetadata ends the
\* process.
AnalyzeMetaStore(i, answer) ==
  LET c == an.calls[i]
      r == fetchOnChainMetadata(answer)
  IN
  /\ InCallback(i, "metaFetch")
  /\ ~requestRuns(c.ctxDone) => (answer.acctErr \/ answer.progErr \/ answer.pdaErr)
  /\ an' = IF r.panics
             THEN [an EXCEPT !.panicked = TRUE, !.calls[i] = [c EXCEPT !.pc = "panic"]]
             ELSE [an EXCEPT
                     !.metadataCache = Store(@, c.curMint, IF r.err THEN FallbackMetadata(c.curMint) ELSE r.meta),
                     !.calls[i] = [c EXCEPT !.pc = "metadata", !.todo = @ \ {c.curMint}, !.curMint = "",
                                            !.stores = @ + 1]]
  /\ AnFrame

\* AnalyzeSignature after ensureMetadataIsCached: getMetadataMap, and by tx.Type
\* parseSwapEvent or calculateNetBalanceChanges up to the items to format;
\* order is the order in which the range over tokenDeltas visits the mints.
AnalyzeItems(i, order) ==
  LET c == an.calls[i]
      addr == subscribers[i].addr
  IN
  /\ InCallback(i, "metadata")
  /\ c.todo = {}
  /\ order \in Orders(deltaMints(c.tx.TokenTransfers, addr) \ {wsolMint})
  /\ an' = SetCall(i, [c EXCEPT !.pc = "items", !.metadataMap = an.metadataCache,
                                !.items = IF c.tx.Type = "SWAP" /\ c.tx.Swap.present
                                            THEN swapItems(c.tx, addr)
                                            ELSE netItems(c.tx, addr, order)])
  /\ AnFrame

\* calculateNetBalanceChanges, parseSwapEvent: the next item is formatted, with
\* GetPriceUSD for a priced asset, and appended to sent or received; a netted
\* token with a zero delta is skipped; mint[:4] may panic.
AnalyzeItem(i, answer) ==
  LET c == an.calls[i]
      item == Head(c.items)
      coin == itemCoin(item)
      price == IF coin = "" THEN [price |-> 0, ok |-> FALSE, cache |-> an.priceCache, fetched |-> FALSE]
               ELSE GetPriceUSD(an.priceCache, coin, answer, now)
      f == Formatted(item, c.metadataMap, price)
  IN
  /\ InCallback(i, "items")
  /\ c.items # <<>>
  /\ an' = IF itemSkipped(item) THEN SetCall(i, [c EXCEPT !.items = Tail(@)])
           ELSE IF itemPanics(item, c.metadataMap)
             THEN [an EXCEPT !.panicked = TRUE, !.calls[i] = [c EXCEPT !.pc = "panic"]]
           ELSE [an EXCEPT
                   !.priceCache = price.cache,
                   !.calls[i] = [c EXCEPT !.items = Tail(@),
                                          !.sent = IF itemReceived(item) THEN @ ELSE Append(@, f),
                                          !.received = IF itemReceived(item) THEN Append(@, f) ELSE @,
                                          !.stores = IF price.cache # an.priceCache THEN @ + 1 ELSE @,
                                          !.late = IF c.ctxDone /\ price.fetched /\ requestRuns(contextBackground)
                                                     THEN @ + 1 ELSE @]]
  /\ AnFrame

\* AnalyzeSignature: the interpretation and buildSummary; it returns
\* (summary, nil), or tx.Signature[:6] panics.
AnalyzeSummary(i) ==
  LET c == an.calls[i] IN
  /\ InCallback(i, "items")
  /\ c.items = <<>>
  /\ an' = IF buildSummaryPanics(c.tx)
             THEN [an EXCEPT !.panicked = TRUE, !.calls[i] = [c EXCEPT !.pc = "panic"]]
             ELSE SetCall(i, [c EXCEPT !.pc = "result",
                                       !.summary = buildSummary(c.tx, interpretation(c.tx, c.sent, c.received),
                                                                c.sent, c.received)])
  /\ AnFrame

\* The message the callback sends: the chat, the shortened address, the summary.
finalMessage(trackedAddr, summary) ==
  [chat |-> "adminID",
   shortAddr |-> SubSeq(trackedAddr, 1, 4) \o "..." \o SubSeq(trackedAddr, Len(trackedAddr) - 3, Len(trackedAddr)),
   summary |-> summary]

\* The callback as it would be without the summary == "" test.
CallbackDecideNoEmptyTest(i) ==
  LET c == an.calls[i]
      addr == subscribers[i].addr
  IN
  /\ InCallback(i, "result")
  /\ an' = IF c.err THEN SetCall(i, [c EXCEPT !.pc = "return"])
           ELSE [an EXCEPT !.outbox = Append(@, finalMessage(addr, c.summary)),
                           !.calls[i] = [c EXCEPT !.pc = "return", !.sends = @ + 1]]
  /\ AnFrame

\* The callback after AnalyzeSignature has returned: return on an error, return
\* on an empty summary, otherwise one sendHTML (bot.SendMessage is called
\* once; its error is logged); trackedAddr[:4] may panic.
CallbackDecide(i) ==
  LET c == an.calls[i]
      addr == subscribers[i].addr
  IN
  /\ InCallback(i, "result")
  /\ an' = IF c.err THEN SetCall(i, [c EXCEPT !.pc = "return"])
           ELSE IF c.summary = EmptySummary THEN SetCall(i, [c EXCEPT !.pc = "return"])
           ELSE IF Len(addr) < 4
             THEN [an EXCEPT !.panicked = TRUE, !.calls[i] = [c EXCEPT !.pc = "panic"]]
           ELSE [an EXCEPT !.outbox = Append(@, finalMessage(addr, c.summary)),
                           !.calls[i] = [c EXCEPT !.pc = "return", !.sends = @ + 1]]
  /\ AnFrame

\* The callback's context is done: its 20 s have passed (the only cancel is
\* the deferred one).
CallbackTimeout(i) ==
  LET c == an.calls[i] IN
  /\ ~an.panicked
  /\ subscribers[i].runPc = "callback"
  /\ c.pc \in {"idle", "metadata", "metaFetch", "items"}
  /\ ~c.ctxDone
  /\ an' = SetCall(i, [c EXCEPT !.ctxDone = TRUE])
  /\ AnFrame

\* The callback returns to the read loop of Run.
CallbackReturn(i) ==
  /\ InCallback(i, "return")
  /\ an' = SetCall(i, IdleCall)
  /\ subscribers' = [subscribers EXCEPT ![i] = [@ EXCEPT !.runPc = "read", !.cbSig = "", !.callbacks = @ - 1]]
  /\ UNCHANGED <<subs, nInst, ctxDone, now, lastCall, probe, handler>>

(***************************************************************************)
(* Manager.Stats                                                            *)
(***************************************************************************)
\* The byte order sort.Strings puts the addresses in.
AddrOrder == <<"addrA", "addrB">>

AddrRank(a) == CHOOSE k \in 1..Len(AddrOrder) : AddrOrder[k] = a

\* sort.Strings, as an insertion sort.
RECURSIVE insertString(_, _)
insertString(sorted, a) ==
  IF sorted = <<>> THEN <<a>>
  ELSE IF AddrRank(a) <= AddrRank(Head(sorted)) THEN <<a>> \o sorted
  ELSE <<Head(sorted)>> \o insertString(Tail(sorted), a)

RECURSIVE sortStrings(_)
sortStrings(seq) ==
  IF seq = <<>> THEN <<>> ELSE insertString(sortStrings(Tail(seq)), Head(seq))

\* Stats: for addr, s := range m.subs, over the addresses in the order the map
\* range visits them: IsOpen counts and continues, else ShouldBeOpen appends.
RECURSIVE statsLoop(_, _, _)
statsLoop(order, open, dropped) ==
  IF order = <<>> THEN [open |-> open, dropped |-> dropped]
  ELSE LET s == subscribers[subs[Head(order)]] IN
       IF s.open THEN statsLoop(Tail(order), open + 1, dropped)
       ELSE IF s.shouldOpen THEN statsLoop(Tail(order), open, Append(dropped, Head(order)))
       ELSE statsLoop(Tail(order), open, dropped)

\* Stats as it would be without sort.Strings(dropped).
StatsUnsorted(order) ==
  /\ order \in Orders({a \in Addrs : subs[a] # NoInst})
  /\ LET r == statsLoop(order, 0, <<>>) IN
     probe' = [fn |-> "Stats", args |-> <<>>, called |-> TRUE,
               result |-> [tracked |-> Len(order), open |-> r.open, dropped |-> r.dropped]]
  /\ UNCHANGED <<subs, nInst, subscribers, ctxDone, now, lastCall, an, handler>>

\* Manager.Stats, under m.mu.RLock; the flags are atomic loads.
Stats(order) ==
  /\ order \in Orders({a \in Addrs : subs[a] # NoInst})
  /\ LET r == statsLoop(order, 0, <<>>) IN
     probe' = [fn |-> "Stats", args |-> <<>>, called |-> TRUE,
               result |-> [tracked |-> Len(order), open |-> r.open, dropped |-> sortStrings(r.dropped)]]
  /\ UNCHANGED <<subs, nInst, subscribers, ctxDone, now, lastCall, an, handler>>

(***************************************************************************)
(* telegram.Handler and main: the wallet store (st), main's re-tracking of  *)
(* the persisted wallets, and handleCommand for /track, /untrack,           *)
(* /trackmany and /untrackmany. The bot library starts every handler on a   *)
(* goroutine of its own, so handlers interleave between their calls; store  *)
(* operations succeed.                                                      *)
(***************************************************************************)
Handlers == 1..MaxHandlers
Commands == {"/track", "/untrack", "/trackmany", "/untrackmany"}
Idle == [cmd |-> "", args |-> <<>>, i |-> 0, pc |-> "idle"]
MainRunning == [pc |-> "run", addrs |-> <<>>, i |-> 0]

\* telegram.New with an empty store, th.Run(ctx) reached, no command in progress.
NewHandler == [st |-> {}, main |-> MainRunning, running |-> [h \in Handlers |-> Idle]]

\* The arguments a command takes: one address, or strings.Fields of the rest.
CommandArgs(cmd) ==
  IF cmd \in {"/track", "/untrack"}
    THEN {<<a>> : a \in Addrs}
    ELSE SeqsUpTo(Addrs, MaxArgs) \ {<<>>}

\* The first call a command makes for an address.
FirstCall(cmd) == IF cmd \in {"/track", "/trackmany"} THEN "AddWallet" ELSE "Untrack"

\* The handler is done with args[i]: the next address of the loop, or the reply
\* and the return.
NextArg(c) ==
  IF c.i < Len(c.args)
    THEN [c EXCEPT !.i = c.i + 1, !.pc = FirstCall(c.cmd)]
    ELSE Idle

\* main: addrs, err := st.ListWallets(ctx)
MainListWallets ==
  /\ handler.main.pc = "list"
  /\ \E addrs \in Orders(handler.st) :
       handler' = [handler EXCEPT !.main =
         IF addrs = <<>> THEN MainRunning ELSE [pc |-> "track", addrs |-> addrs, i |-> 1]]
  /\ UNCHANGED <<subs, nInst, subscribers, ctxDone, now, lastCall, an, probe>>

\* main: for _, a := range addrs { tm.Track(ctx, a) }, then th.Run(ctx)
MainTrack ==
  LET mn == handler.main IN
  /\ mn.pc = "track"
  /\ Track(mn.addrs[mn.i])
  /\ handler' = [handler EXCEPT !.main =
       IF mn.i < Len(mn.addrs) THEN [mn EXCEPT !.i = mn.i + 1] ELSE MainRunning]

\* The bot delivers a command message: handleCommand starts on a new goroutine.
Dispatch(h, cmd, args) ==
  /\ handler.main.pc = "run"
  /\ handler.running[h] = Idle
  /\ handler' = [handler EXCEPT !.running[h] =
       [cmd |-> cmd, args |-> args, i |-> 1, pc |-> FirstCall(cmd)]]
  /\ UNCHANGED <<subs, nInst, subscribers, ctxDone, now, lastCall, an, probe>>

\* /track, /trackmany: h.st.AddWallet(ctx, addr)
HandlerAddWallet(h) ==
  LET c == handler.running[h] IN
  /\ c.pc = "AddWallet"
  /\ handler' = [handler EXCEPT !.st = @ \cup {c.args[c.i]},
                                !.running[h] = [c EXCEPT !.pc = "Track"]]
  /\ UNCHANGED <<subs, nInst, subscribers, ctxDone, now, lastCall, an, probe>>

\* /track, /trackmany: h.tm.Track(ctx, addr); on an error /track returns and
\* /trackmany takes the wallet out of the store again.
HandlerTrack(h) ==
  LET c == handler.running[h] IN
  /\ c.pc = "Track"
  /\ Track(c.args[c.i])
  /\ handler' = [handler EXCEPT !.running[h] =
       IF lastCall'.err
         THEN IF c.cmd = "/track" THEN Idle ELSE [c EXCEPT !.pc = "RemoveWallet"]
         ELSE NextArg(c)]

\* /untrack, /untrackmany: _ = h.tm.Untrack(ctx, addr)
HandlerUntrack(h) ==
  LET c == handler.running[h] IN
  /\ c.pc = "Untrack"
  /\ Untrack(c.args[c.i])
  /\ handler' = [handler EXCEPT !.running[h] = [c EXCEPT !.pc = "RemoveWallet"]]

\* /untrack, /untrackmany (and /trackmany after a failed Track):
\* h.st.RemoveWallet(ctx, addr)
HandlerRemoveWallet(h) ==
  LET c == handler.running[h] IN
  /\ c.pc = "RemoveWallet"
  /\ handler' = [handler EXCEPT !.st = @ \ {c.args[c.i]},
                                !.running[h] = NextArg(c)]
  /\ UNCHANGED <<subs, nInst, subscribers, ctxDone, now, lastCall, an, probe>>

NoCall == [op |-> "", found |-> FALSE, err |-> FALSE]

\* NewManager, before any Track.
Init ==
  /\ subs = [a \in Addrs |-> NoInst]
  /\ nInst = 0
  /\ subscribers = [i \in Insts |-> Unallocated]
  /\ ctxDone = FALSE
  /\ handler = NewHandler
  /\ now = 0
  /\ lastCall = NoCall
  /\ an = NewAnalyzer
  /\ probe = NoProbe

\* The Run goroutine of subscriber i: every step it takes by itself. Frames and
\* transport failures of a live connection come from the peer (RunReadMsg,
\* RunReadErr).
RunLoopStep(i) ==
  \/ RunStart(i)
  \/ RunCheck(i)
  \/ RunDialStart(i)
  \/ RunDialFail(i)
  \/ RunDialOk(i)
  \/ RunSleep(i)
  \/ RunDialed(i)
  \/ RunSubscribeFail(i)
  \/ RunSubscribeOk(i)
  \/ RunReadClosed(i)
  \/ RunHandle(i)
  \/ RunCallbackReturn(i)
  \/ RunCleanup(i)

\* The goroutines of subscriber i, without the frames the peer sends.
RunStep(i) ==
  \/ RunStart(i)
  \/ RunCheck(i)
  \/ RunDialStart(i)
  \/ RunDialFail(i)
  \/ RunDialOk(i)
  \/ RunSleep(i)
  \/ RunDialed(i)
  \/ RunSubscribeFail(i)
  \/ RunSubscribeOk(i)
  \/ RunReadErr(i)
  \/ RunReadClosed(i)
  \/ RunHandle(i)
  \/ RunCallbackReturn(i)
  \/ RunCleanup(i)
  \/ CloserRun(i)
  \/ OrphanCloserRun(i)
  \/ PingerExit(i)
  \/ OrphanPingerExit(i)
  \/ CleanerExit(i)

\* The goroutines of subscriber i while its first dial is still in flight.
RunStepIdle(i) ==
  \/ RunStart(i)
  \/ RunCheck(i)
  \/ RunDialStart(i)
  \/ CleanerExit(i)

(***************************************************************************)
(* SpecMgr: the registry under any sequence of Track, Untrack and StopAll,  *)
(* with every subscriber's goroutines running up to the first dial.         *)
(***************************************************************************)
NextMgr ==
  \/ \E a \in Addrs : Track(a) /\ UNCHANGED handler
  \/ \E a \in Addrs : Untrack(a) /\ UNCHANGED handler
  \/ StopAll /\ UNCHANGED handler
  \/ \E i \in Allocated : RunStepIdle(i)

SpecMgr == Init /\ [][NextMgr]_vars

(***************************************************************************)
(* SpecSub: one tracked subscriber with all its goroutines, the frames its  *)
(* peer sends, Stop (by Untrack or StopAll) and cancellation of the context.*)
(***************************************************************************)
\* main: Track(ctx, "addrA") has returned.
InitSub ==
  /\ subs = [a \in Addrs |-> IF a = "addrA" THEN 1 ELSE NoInst]
  /\ nInst = 1
  /\ subscribers = [i \in Insts |-> IF i = 1 THEN NewSubscriber("addrA") ELSE Unallocated]
  /\ ctxDone = FALSE
  /\ handler = NewHandler
  /\ now = 0
  /\ lastCall = [op |-> "Track", found |-> FALSE, err |-> FALSE]
  /\ an = NewAnalyzer
  /\ probe = NoProbe

NextSub ==
  \/ \E a \in Addrs : Untrack(a) /\ UNCHANGED handler
  \/ StopAll /\ UNCHANGED handler
  \/ CancelCtx
  \/ \E i \in Allocated : RunStep(i)
  \/ \E i \in Allocated, m \in WireMsgs : RunReadMsg(i, m)

SpecSub == InitSub /\ [][NextSub]_vars

\* Every goroutine that can take a step eventually takes one; the peer and the
\* operator are under no such obligation.
FairSub ==
  /\ SpecSub
  /\ \A i \in Insts :
       /\ WF_vars(RunLoopStep(i))
       /\ WF_vars(CloserRun(i))
       /\ WF_vars(OrphanCloserRun(i))
       /\ WF_vars(PingerExit(i))
       /\ WF_vars(OrphanPingerExit(i))
       /\ WF_vars(CleanerExit(i))

(***************************************************************************)
(* SpecDedup: one subscribed subscriber, the notifications its peer sends,  *)
(* the clock and the sweep of cleanCache.                                   *)
(***************************************************************************)
\* Run has dialled, subscribed and is reading; cleanCache started at time 0.
Subscribed(addr) ==
  [NewSubscriber(addr) EXCEPT !.runPc = "read", !.open = TRUE, !.conn = "live",
                              !.closer = "wait", !.pinger = "run", !.cleaner = "run",
                              !.redialed = TRUE,
                              !.readDeadline = ReadTimeout, !.lastRecv = 0]

InitDedup ==
  /\ subs = [a \in Addrs |-> IF a = "addrA" THEN 1 ELSE NoInst]
  /\ nInst = 1
  /\ subscribers = [i \in Insts |-> IF i = 1 THEN Subscribed("addrA") ELSE Unallocated]
  /\ ctxDone = FALSE
  /\ handler = NewHandler
  /\ now = 0
  /\ lastCall = [op |-> "Track", found |-> FALSE, err |-> FALSE]
  /\ an = NewAnalyzer
  /\ probe = NoProbe

NextDedup ==
  \/ \E i \in Allocated, m \in WireMsgs : RunReadMsg(i, m)
  \/ \E i \in Allocated : RunHandle(i)
  \/ \E i \in Allocated : RunCallbackReturn(i)
  \/ \E i \in Allocated : CleanerSweep(i)
  \/ Tick

SpecDedup == InitDedup /\ [][NextDedup]_vars

(***************************************************************************)
(* SpecRead: SpecDedup with a peer that also sends a notification whose     *)
(* signature is shorter than the prefix the read loop logs; a panic ends    *)
(* the process.                                                             *)
(***************************************************************************)
NextRead ==
  \/ \E i \in Allocated, m \in WireMsgs \cup {ShortNotif} : ~an.panicked /\ RunReadMsg(i, m)
  \/ \E i \in Allocated : ~an.panicked /\ RunHandle(i)
  \/ \E i \in Allocated : ~an.panicked /\ RunCallbackReturn(i)
  \/ \E i \in Allocated : ~an.panicked /\ CleanerSweep(i)
  \/ ~an.panicked /\ Tick

SpecRead == InitDedup /\ [][NextRead]_vars

(***************************************************************************)
(* SpecScope: two subscribed subscribers, one per address; each peer sends  *)
(* notifications and fails the connection, and Run dials again. No time     *)
(* passes: every redelivery is inside the dedup window.                     *)
(***************************************************************************)
InitScope ==
  /\ subs = [a \in Addrs |-> IF a = "addrA" THEN 1 ELSE 2]
  /\ nInst = 2
  /\ subscribers = [i \in Insts |-> IF i = 1 THEN Subscribed("addrA")
                                    ELSE IF i = 2 THEN Subscribed("addrB") ELSE Unallocated]
  /\ ctxDone = FALSE
  /\ handler = NewHandler
  /\ now = 0
  /\ lastCall = [op |-> "Track", found |-> FALSE, err |-> FALSE]
  /\ an = NewAnalyzer
  /\ probe = NoProbe

NextScope ==
  \/ \E i \in Allocated, m \in ValidNotifs : RunReadMsg(i, m)
  \/ \E i \in Allocated : RunHandle(i)
  \/ \E i \in Allocated : RunCallbackReturn(i)
  \/ \E i \in Allocated : RunReadErr(i)
  \/ \E i \in Allocated : RunCleanup(i)
  \/ \E i \in Allocated : RunCheck(i)
  \/ \E i \in Allocated : RunDialStart(i)
  \/ \E i \in Allocated : RunDialOk(i)
  \/ \E i \in Allocated : RunDialed(i)
  \/ \E i \in Allocated : RunSubscribeOk(i)
  \/ \E i \in Allocated : OrphanCloserRun(i)
  \/ \E i \in Allocated : OrphanPingerExit(i)

SpecScope == InitScope /\ [][NextScope]_vars

(***************************************************************************)
(* SpecStats: the registry under Track, Untrack and StopAll, the steps of   *)
(* every subscriber's Run that store the open flag or lead there, and Stats *)
(* called at any moment.                                                    *)
(***************************************************************************)
\* Run of subscriber i from its start through a connection and its failure.
RunFlagStep(i) ==
  \/ RunStart(i)
  \/ RunCheck(i)
  \/ RunDialStart(i)
  \/ RunDialOk(i)
  \/ RunDialed(i)
  \/ RunSubscribeFail(i)
  \/ RunSubscribeOk(i)
  \/ RunReadErr(i)
  \/ RunCleanup(i)

NextStats ==
  \/ \E a \in Addrs : Track(a) /\ UNCHANGED handler
  \/ \E a \in Addrs : Untrack(a) /\ UNCHANGED handler
  \/ StopAll /\ UNCHANGED handler
  \/ \E i \in Allocated : RunFlagStep(i)
  \/ \E order \in SeqsUpTo(Addrs, Cardinality(Addrs)) : Stats(order)

SpecStats == Init /\ [][NextStats]_vars

(***************************************************************************)
(* SpecFilter: shouldFilter called for any watched address on any            *)
(* transaction built from FilterAccountData and FilterTransfers.            *)
(***************************************************************************)
InitFilter ==
  /\ subs = [a \in Addrs |-> NoInst]
  /\ nInst = 0
  /\ subscribers = [i \in Insts |-> Unallocated]
  /\ ctxDone = FALSE
  /\ handler = NewHandler
  /\ now = 0
  /\ lastCall = NoCall
  /\ an = NewAnalyzer
  /\ \E e \in TransactionErrors, ad \in FilterAccountData, tt \in FilterTransfers, a \in Addrs :
       probe = [fn |-> "shouldFilter",
                args |-> <<HeliusTransaction(LongSignature, "UNKNOWN", e, ad, tt, NoSwap), a>>,
                called |-> FALSE, result |-> FALSE]

NextFilter == CallShouldFilter

SpecFilter == InitFilter /\ [][NextFilter]_vars

(***************************************************************************)
(* SpecAnalyze: one subscribed subscriber whose peer sends notifications,   *)
(* and the SignatureNotify callback with AnalyzeSignature, step by step,    *)
(* against every answer of the enrichment, RPC and price services.          *)
(***************************************************************************)
InitAnalyze == InitDedup

NextAnalyze ==
  \/ \E i \in Allocated, m \in ValidNotifs : ~an.panicked /\ RunReadMsg(i, m)
  \/ \E i \in Allocated : ~an.panicked /\ RunHandle(i)
  \/ \E i \in Allocated, resp \in HeliusResponses : AnalyzeFetch(i, resp)
  \/ \E i \in Allocated, mint \in Mints : AnalyzeMetaLoad(i, mint)
  \/ \E i \in Allocated, answer \in MetadataAnswers : AnalyzeMetaStore(i, answer)
  \/ \E i \in Allocated, order \in SeqsUpTo({usdcMint, bonkMint, ""}, MaxTransfers) : AnalyzeItems(i, order)
  \/ \E i \in Allocated, answer \in PriceAnswers : AnalyzeItem(i, answer)
  \/ \E i \in Allocated : AnalyzeSummary(i)
  \/ \E i \in Allocated : CallbackDecide(i)
  \/ \E i \in Allocated : CallbackReturn(i)

SpecAnalyze == InitAnalyze /\ [][NextAnalyze]_vars

(***************************************************************************)
(* SpecRace: two subscribed subscribers whose callbacks run at the same     *)
(* time, each on its own Run goroutine, on transactions that move a token   *)
(* the metadata cache does not hold.                                        *)
(***************************************************************************)
RaceResponses == {HttpResponse(FALSE, 200, TRUE, <<TxToken>>)}

\* The notification of one transaction that mentions both watched addresses.
RaceNotifs == {m \in ValidNotifs : m.signature = LongSignature}

NextRace ==
  \/ \E i \in Allocated, m \in RaceNotifs : ~an.panicked /\ RunReadMsg(i, m)
  \/ \E i \in Allocated : ~an.panicked /\ RunHandle(i)
  \/ \E i \in Allocated, resp \in RaceResponses : AnalyzeFetch(i, resp)
  \/ \E i \in Allocated, mint \in Mints : AnalyzeMetaLoad(i, mint)
  \/ \E i \in Allocated, answer \in MetadataAnswers : AnalyzeMetaStore(i, answer)
  \/ \E i \in Allocated, order \in SeqsUpTo({usdcMint, bonkMint, ""}, MaxTransfers) : AnalyzeItems(i, order)
  \/ \E i \in Allocated, answer \in PriceAnswers : AnalyzeItem(i, answer)
  \/ \E i \in Allocated : AnalyzeSummary(i)
  \/ \E i \in Allocated : CallbackDecide(i)
  \/ \E i \in Allocated : CallbackReturn(i)

SpecRace == InitScope /\ [][NextRace]_vars

(***************************************************************************)
(* SpecPrice: the price oracle alone, called for either coin at any time   *)
(* against every answer of the price service, while the clock advances.    *)
(***************************************************************************)
NextPrice ==
  \/ \E coinID \in CoinIDs, answer \in PriceQuotes : CallGetPriceUSD(coinID, answer)
  \/ Tick

SpecPrice == Init /\ [][NextPrice]_vars

(***************************************************************************)
(* SpecNet: calculateNetBalanceChanges called for either watched address    *)
(* on any transaction built from NetAccountData, NetTransfers and          *)
(* NetNativeTransfers, against every answer of the price service.          *)
(***************************************************************************)
InitNet ==
  /\ subs = [a \in Addrs |-> NoInst]
  /\ nInst = 0
  /\ subscribers = [i \in Insts |-> Unallocated]
  /\ ctxDone = FALSE
  /\ handler = NewHandler
  /\ now = 0
  /\ lastCall = NoCall
  /\ an = NewAnalyzer
  /\ \E ad \in NetAccountData, tt \in NetTransfers, nt \in NetNativeTransfers, a \in Addrs :
       probe = [fn |-> "calculateNetBalanceChanges",
                args |-> <<WithNativeTransfers(HeliusTransaction(LongSignature, "TRANSFER", "nil", ad, tt, NoSwap), nt), a>>,
                called |-> FALSE, result |-> FALSE]

NextNet ==
  \E order \in SeqsUpTo({usdcMint, bonkMint}, MaxTransfers), answer \in PriceAnswers :
    CallCalculateNetBalanceChanges(order, answer)

SpecNet == InitNet /\ [][NextNet]_vars

(***************************************************************************)
(* SpecNetF64: calculateNetBalanceChanges called for either watched address *)
(* on any transaction of up to MaxLegs token transfers with fractional      *)
(* amounts.                                                                 *)
(***************************************************************************)
InitNetF64 ==
  /\ subs = [a \in Addrs |-> NoInst]
  /\ nInst = 0
  /\ subscribers = [i \in Insts |-> Unallocated]
  /\ ctxDone = FALSE
  /\ handler = NewHandler
  /\ now = 0
  /\ lastCall = NoCall
  /\ an = NewAnalyzer
  /\ \E tt \in F64Transfers, a \in Addrs :
       probe = [fn |-> "tokenDeltas",
                args |-> <<HeliusTransaction(LongSignature, "TRANSFER", "nil", <<>>, tt, NoSwap), a>>,
                called |-> FALSE, result |-> FALSE]

NextNetF64 ==
  \E order \in SeqsUpTo({usdcMint, bonkMint}, 2) : CallNetBalanceF64(order)

SpecNetF64 == InitNetF64 /\ [][NextNetF64]_vars

(***************************************************************************)
(* SpecSwap: the SWAP case of AnalyzeSignature for either watched address   *)
(* on any transaction built from SwapEvents and SwapTransfers.              *)
(***************************************************************************)
InitSwap ==
  /\ subs = [a \in Addrs |-> NoInst]
  /\ nInst = 0
  /\ subscribers = [i \in Insts |-> Unallocated]
  /\ ctxDone = FALSE
  /\ handler = NewHandler
  /\ now = 0
  /\ lastCall = NoCall
  /\ an = NewAnalyzer
  /\ \E swap \in SwapEvents, tt \in SwapTransfers, a \in Addrs :
       probe = [fn |-> "parseSwapEvent",
                args |-> <<[HeliusTransaction(LongSignature, "SWAP", "nil", <<AccountData("addrA", -150000)>>, tt, swap)
                             EXCEPT !.Source = "JUPITER"], a>>,
                called |-> FALSE, result |-> FALSE]

NextSwap ==
  \E order \in SeqsUpTo({usdcMint}, 1), answer \in PriceAnswers : CallParseSwapEvent(order, answer)

SpecSwap == InitSwap /\ [][NextSwap]_vars

(***************************************************************************)
(* SpecCtx: SpecAnalyze with the deadline of the callback's context, which  *)
(* may pass at any point of the analysis.                                   *)
(***************************************************************************)
NextCtx ==
  \/ NextAnalyze
  \/ \E i \in Allocated : CallbackTimeout(i)

SpecCtx == InitAnalyze /\ [][NextCtx]_vars

(***************************************************************************)
(* SpecConn: one subscribed subscriber and its connection: frames (pongs    *)
(* and notifications) arrive and wait until ReadMessage takes them.         *)
(***************************************************************************)
ConnFrames == {PongFrame} \cup ValidNotifs

NextConn ==
  \/ \E i \in Allocated, m \in ConnFrames : PeerSend(i, m)
  \/ \E i \in Allocated : RunReadQueued(i)
  \/ \E i \in Allocated : RunHandle(i)
  \/ \E i \in Allocated : RunCallbackReturn(i)

SpecConn == InitDedup /\ [][NextConn]_vars

(***************************************************************************)
(* SpecDeadline: the same connection under the clock: pongs and data        *)
(* frames that the read loop discards arrive, and the read deadline may     *)
(* pass.                                                                    *)
(***************************************************************************)
\* The reply to logsSubscribe: a data frame that is not a notification.
SubscribeReply == [decodes |-> TRUE, method |-> "", signature |-> "", err |-> FALSE, rpcError |-> FALSE]

DeadlineFrames == {PongFrame, SubscribeReply}

NextDeadline ==
  \/ \E i \in Allocated, m \in DeadlineFrames : PeerSend(i, m)
  \/ \E i \in Allocated : RunReadQueued(i)
  \/ \E i \in Allocated : RunReadDeadline(i)
  \/ \E i \in Allocated : RunHandle(i)
  \/ Tick

SpecDeadline == InitDedup /\ [][NextDeadline]_vars

(***************************************************************************)
(* formatHumanReadable. A float64 amount is the dyadic rational             *)
(* num / 2^exp; strconv.FormatFloat rounds the exact binary value to the    *)
(* nearest decimal of the asked precision, ties to even.                    *)
(***************************************************************************)
Float(num, exp) == [num |-> num, exp |-> exp]

RECURSIVE Pow(_, _)
Pow(b, n) == IF n = 0 THEN 1 ELSE b * Pow(b, n - 1)

\* f >= n, for a whole n
AtLeast(f, n) == f.num >= n * Pow(2, f.exp)

\* One decimal digit as a string.
DigitChar(d) == SubSeq("0123456789", d + 1, d + 1)

\* strconv: the decimal digits of a whole number.
RECURSIVE Itoa(_)
Itoa(n) == IF n < 10 THEN DigitChar(n) ELSE Itoa(n \div 10) \o DigitChar(n % 10)

\* strconv: n as exactly width digits, with leading zeros.
RECURSIVE ItoaPad(_, _)
ItoaPad(n, width) == IF width = 0 THEN "" ELSE ItoaPad(n \div 10, width - 1) \o DigitChar(n % 10)

RECURSIVE ZeroDigits(_)
ZeroDigits(n) == IF n = 0 THEN "" ELSE "0" \o ZeroDigits(n - 1)

\* strconv's rounding of n / d to a whole number: to nearest, ties to even.
RoundHalfEven(n, d) ==
  LET q == n \div d
      r == n % d
  IN IF 2 * r > d \/ (2 * r = d /\ q % 2 = 1) THEN q + 1 ELSE q

\* strconv.FormatFloat(f, 'f', prec, 64)
FormatFloatF(f, prec) ==
  LET n == RoundHalfEven(f.num * Pow(10, prec), Pow(2, f.exp)) IN
  IF prec = 0 THEN Itoa(n)
  ELSE Itoa(n \div Pow(10, prec)) \o "." \o ItoaPad(n % Pow(10, prec), prec)

\* The number of decimal places by which 0 < f < 1 is shifted to reach [1, 10).
RECURSIVE DecimalShift(_, _)
DecimalShift(f, k) == IF f.num * Pow(10, k) >= Pow(2, f.exp) THEN k ELSE DecimalShift(f, k + 1)

\* strconv: trailing zeros of the digits are dropped; d > 0.
RECURSIVE TrimZeros(_)
TrimZeros(d) == IF d % 10 = 0 THEN TrimZeros(d \div 10) ELSE d

\* strconv.FormatFloat(f, 'g', 3, 64) for 0 <= f < 1: three digits after
\* rounding, trailing zeros dropped, %e when the decimal exponent is below -4.
FormatFloatG3(f) ==
  IF f.num = 0 THEN "0"
  ELSE LET k0 == DecimalShift(f, 1)
           d0 == RoundHalfEven(f.num * Pow(10, k0 + 2), Pow(2, f.exp))
           k == IF d0 = 1000 THEN k0 - 1 ELSE k0
           d == IF d0 = 1000 THEN 100 ELSE d0
           digs == Itoa(TrimZeros(d))
       IN IF k = 0 THEN digs
          ELSE IF k > 4
            THEN SubSeq(digs, 1, 1) \o (IF Len(digs) > 1 THEN "." \o SubSeq(digs, 2, Len(digs)) ELSE "")
                   \o "e-" \o ItoaPad(k, 2)
          ELSE "0." \o ZeroDigits(k - 1) \o digs

\* The index of the first "." of s, 0 without one.
DotIndex(s) ==
  LET ks == {k \in 1..Len(s) : SubSeq(s, k, k) = "."} IN
  IF ks = {} THEN 0 ELSE CHOOSE k \in ks : \A j \in ks : k <= j

\* formatHumanReadable's loop as it would be without the separators.
RECURSIVE commaLoopPlain(_, _, _, _)
commaLoopPlain(integerPart, i, k, b) ==
  LET b1 == SubSeq(integerPart, i, i) \o b IN
  IF i = 1 THEN b1 ELSE commaLoopPlain(integerPart, i - 1, k + 1, b1)

\* formatHumanReadable: the loop that fills b from the right, the digit at i
\* first and a comma after every third digit; it returns at the first digit.
RECURSIVE commaLoop(_, _, _, _)
commaLoop(integerPart, i, k, b) ==
  LET b1 == SubSeq(integerPart, i, i) \o b IN
  IF i = 1 THEN b1
  ELSE commaLoop(integerPart, i - 1, k + 1, IF (k + 1) % 3 = 0 THEN "," \o b1 ELSE b1)

\* formatHumanReadable(f), f >= 0
formatHumanReadable(f) ==
  IF AtLeast(f, 1)
    THEN LET prec == IF AtLeast(f, 1000) THEN 0 ELSE 2
             s == FormatFloatF(f, prec)
             dot == DotIndex(s)
             integerPart == IF dot = 0 THEN s ELSE SubSeq(s, 1, dot - 1)
             fractionalPart == IF dot = 0 THEN "" ELSE "." \o SubSeq(s, dot + 1, Len(s))
             n == Len(integerPart)
         IN IF n <= 3 THEN s
            ELSE commaLoop(integerPart, n, 0, "") \o fractionalPart
    ELSE FormatFloatG3(f)

\* The amounts formatHumanReadable is called on: halves up to the millions,
\* 256ths about 1000 and about 12, 2048ths about 1, and 65536ths from 0 up.
FormatInputs ==
  {Float(n, 1) : n \in {1, 3, 1999, 2001, 2003, 1999997, 1999999, 2469135}}
    \cup {Float(n, 8) : n \in (255990..256010) \cup {3160, 384102}}
    \cup {Float(n, 11) : n \in 2040..2056}
    \cup {Float(n, 16) : n \in 0..40}

\* formatHumanReadable(f) is called and returns.
CallFormatHumanReadable ==
  /\ probe.fn = "formatHumanReadable"
  /\ ~probe.called
  /\ probe' = [probe EXCEPT !.called = TRUE, !.result = formatHumanReadable(probe.args[1])]
  /\ UNCHANGED <<subs, nInst, subscribers, ctxDone, now, lastCall, an, handler>>

(***************************************************************************)
(* SpecFormat: formatHumanReadable on every amount of FormatInputs.         *)
(***************************************************************************)
InitFormat ==
  /\ subs = [a \in Addrs |-> NoInst]
  /\ nInst = 0
  /\ subscribers = [i \in Insts |-> Unallocated]
  /\ ctxDone = FALSE
  /\ handler = NewHandler
  /\ now = 0
  /\ lastCall = NoCall
  /\ an = NewAnalyzer
  /\ \E f \in FormatInputs :
       probe = [fn |-> "formatHumanReadable", args |-> <<f>>, called |-> FALSE, result |-> FALSE]

NextFormat == CallFormatHumanReadable

SpecFormat == InitFormat /\ [][NextFormat]_vars

(***************************************************************************)
(* SpecParse: fetchOnChainMetadata on metadata records of every length up   *)
(* to MaxRecordLen, with name and symbol length prefixes of every size.     *)
(***************************************************************************)
\* fetchOnChainMetadata: rawData[headerOffset : headerOffset+4] taken from a
\* record that ends before headerOffset+4, within the capacity of rawData:
\* the bytes past the record's length are read.
readsPastLen(rawData) ==
  /\ Len(rawData) >= headerOffset
  /\ Len(rawData) < headerOffset + 4
  /\ headerOffset + 4 <= DecodedCap(Len(rawData))

\* The length prefixes a record may declare: none, short, beyond the record,
\* and one whose top byte is set (127 * 2^24).
PrefixLens == {0, 2, 200, 2130706432}

\* A record that declares the lengths nameLen and symbolLen and holds at
\* most two bytes of name and three of symbol.
RecordWith(nameLen, symbolLen) ==
  Zeros(headerOffset) \o U32LE(nameLen) \o [k \in 1..Min(nameLen, 2) |-> 66]
    \o U32LE(symbolLen) \o [k \in 1..Min(symbolLen, 3) |-> 66] \o <<0, 1>>

\* The records fetched: every prefix, up to MaxRecordLen bytes, of a record
\* with the declared lengths.
ParseRecords ==
  {SubSeq(RecordWith(nl, sl), 1, Min(L, Len(RecordWith(nl, sl)))) :
     L \in 0..MaxRecordLen, nl \in PrefixLens, sl \in PrefixLens}

\* fetchOnChainMetadata(ctx, mint, rpcURL, client) is called and returns or
\* panics. History kept for the properties: whether bytes past the record's
\* length were read.
CallFetchOnChainMetadata ==
  LET answer == probe.args[1]
      r == fetchOnChainMetadata(answer)
  IN
  /\ probe.fn = "fetchOnChainMetadata"
  /\ ~probe.called
  /\ probe' = [probe EXCEPT !.called = TRUE,
                            !.result = [err |-> r.err, panics |-> r.panics, meta |-> r.meta,
                                        overread |-> ~r.panics /\ readsPastLen(answer.rawData)]]
  /\ UNCHANGED <<subs, nInst, subscribers, ctxDone, now, lastCall, an, handler>>

InitParse ==
  /\ subs = [a \in Addrs |-> NoInst]
  /\ nInst = 0
  /\ subscribers = [i \in Insts |-> Unallocated]
  /\ ctxDone = FALSE
  /\ handler = NewHandler
  /\ now = 0
  /\ lastCall = NoCall
  /\ an = NewAnalyzer
  /\ \E raw \in ParseRecords :
       probe = [fn |-> "fetchOnChainMetadata", args |-> <<[GoodAnswer EXCEPT !.rawData = raw]>>,
                called |-> FALSE, result |-> FALSE]

NextParse == CallFetchOnChainMetadata

SpecParse == InitParse /\ [][NextParse]_vars

(***************************************************************************)
(* SpecRerun: AnalyzeSignature, from getMetadataMap on, run twice on the    *)
(* same transaction for the same address, with the same metadata cache and  *)
(* the same answer of the price service.                                    *)
(***************************************************************************)
\* AnalyzeSignature after ensureMetadataIsCached, for a tx.Type other than
\* SWAP: calculateNetBalanceChanges, the interpretation and buildSummary;
\* order is the order in which the range over tokenDeltas visits the mints.
\* History kept for the properties: the results of the runs so far.
CallAnalyzeSignature(order) ==
  LET tx == probe.args[1]
      trackedAddr == probe.args[2]
      answer == probe.args[3]
      r == calculateNetBalanceChanges(tx, trackedAddr, an.metadataCache, order, an.priceCache, answer, now)
      headline == interpretation(tx, r.sent, r.received)
  IN
  /\ probe.fn = "AnalyzeSignature"
  /\ Len(probe.result) < Reruns
  /\ order \in Orders(deltaMints(tx.TokenTransfers, trackedAddr) \ {wsolMint})
  /\ probe' = [probe EXCEPT !.called = TRUE,
                            !.result = Append(@, [sent |-> r.sent, received |-> r.received,
                                                  headline |-> headline,
                                                  summary |-> buildSummary(tx, headline, r.sent, r.received)])]
  /\ an' = [an EXCEPT !.priceCache = r.cache]
  /\ UNCHANGED <<subs, nInst, subscribers, ctxDone, now, lastCall, handler>>

\* The transaction types analysed twice: one of the default case, and CREATE,
\* whose headline names received[0].
RerunTypes == {"TRANSFER", "CREATE"}

InitRerun ==
  /\ subs = [a \in Addrs |-> NoInst]
  /\ nInst = 0
  /\ subscribers = [i \in Insts |-> Unallocated]
  /\ ctxDone = FALSE
  /\ handler = NewHandler
  /\ now = 0
  /\ lastCall = NoCall
  /\ an = NewAnalyzer
  /\ \E type \in RerunTypes, tt \in NetTransfers, a \in Addrs, answer \in PriceAnswers :
       probe = [fn |-> "AnalyzeSignature",
                args |-> <<HeliusTransaction(LongSignature, type, "nil", <<AccountData("addrA", -5000)>>, tt, NoSwap),
                           a, answer>>,
                called |-> FALSE, result |-> <<>>]

NextRerun ==
  \E order \in SeqsUpTo({usdcMint, bonkMint}, MaxTransfers) : CallAnalyzeSignature(order)

SpecRerun == InitRerun /\ [][NextRerun]_vars

(***************************************************************************)
(* SpecCmd: the registry and the wallet store from process start: main      *)
(* re-tracks the persisted wallets, then command handlers run concurrently. *)
(***************************************************************************)
\* main, before st.ListWallets: the store holds what an earlier run persisted.
InitCmd ==
  /\ subs = [a \in Addrs |-> NoInst]
  /\ nInst = 0
  /\ subscribers = [i \in Insts |-> Unallocated]
  /\ ctxDone = FALSE
  /\ now = 0
  /\ lastCall = NoCall
  /\ an = NewAnalyzer
  /\ probe = NoProbe
  /\ \E persisted \in SUBSET Addrs :
       handler = [NewHandler EXCEPT !.st = persisted,
                                    !.main = [pc |-> "list", addrs |-> <<>>, i |-> 0]]

NextCmd ==
  \/ MainListWallets
  \/ MainTrack
  \/ \E h \in Handlers, cmd \in Commands : \E args \in CommandArgs(cmd) : Dispatch(h, cmd, args)
  \/ \E h \in Handlers : HandlerAddWallet(h)
  \/ \E h \in Handlers : HandlerTrack(h)
  \/ \E h \in Handlers : HandlerUntrack(h)
  \/ \E h \in Handlers : HandlerRemoveWallet(h)

SpecCmd == InitCmd /\ [][NextCmd]_vars

(***************************************************************************)
(* SpecAgree: shouldFilter and calculateNetBalanceChanges on one            *)
(* transaction and one address, with native changes and wrapped-SOL amounts *)
(* (in lamports) on both sides of the dust threshold.                       *)
(***************************************************************************)
AgreeAccountData ==
  SeqsUpTo({AccountData(a, n) : a \in Addrs, n \in {-5000, 99999, 100000, -200000}}, MaxAccountData)

AgreeTransfers ==
  SeqsUpTo({TokenTransfer(m, f, t, n) : m \in {wsolMint, usdcMint}, f \in Addrs, t \in Addrs, n \in {1, 250000}},
           MaxTransfers)

\* shouldFilter(tx, trackedAddr), and calculateNetBalanceChanges on the same
\* transaction and address.
CallFilterAndNet(order, answer) ==
  LET tx == probe.args[1]
      trackedAddr == probe.args[2]
      r == calculateNetBalanceChanges(tx, trackedAddr, an.metadataCache, order, an.priceCache, answer, now)
  IN
  /\ probe.fn = "shouldFilter, calculateNetBalanceChanges"
  /\ ~probe.called
  /\ order \in Orders(deltaMints(tx.TokenTransfers, trackedAddr) \ {wsolMint})
  /\ probe' = [probe EXCEPT !.called = TRUE,
                            !.result = [filtered |-> shouldFilter(tx, trackedAddr),
                                        sent |-> r.sent, received |-> r.received, panics |-> r.panics]]
  /\ an' = [an EXCEPT !.priceCache = r.cache]
  /\ UNCHANGED <<subs, nInst, subscribers, ctxDone, now, lastCall, handler>>

InitAgree ==
  /\ subs = [a \in Addrs |-> NoInst]
  /\ nInst = 0
  /\ subscribers = [i \in Insts |-> Unallocated]
  /\ ctxDone = FALSE
  /\ handler = NewHandler
  /\ now = 0
  /\ lastCall = NoCall
  /\ an = NewAnalyzer
  /\ \E ad \in AgreeAccountData, tt \in AgreeTransfers, a \in Addrs :
       probe = [fn |-> "shouldFilter, calculateNetBalanceChanges",
                args |-> <<HeliusTransaction(LongSignature, "TRANSFER", "nil", ad, tt, NoSwap), a>>,
                called |-> FALSE, result |-> FALSE]

NextAgree ==
  \E order \in SeqsUpTo({usdcMint}, MaxTransfers), answer \in PriceAnswers :
    CallFilterAndNet(order, answer)

SpecAgree == InitAgree /\ [][NextAgree]_vars

Spec == SpecSub

(***************************************************************************)
(* Properties.                                                              *)
(***************************************************************************)

\* C1: on one Subscriber, two calls of SignatureNotify for the same signature
\* are never less than DedupWindow (30 s) apart, each call is one call, and
\* isDuplicate never reports a duplicate before the signature's first callback
\* (the first arrival returns false); the sweep of cleanCache runs in between.
C1_DedupAtMostOnce ==
  /\ [](\A i \in Insts, s \in Sigs :
          subscribers[i].dupSeen[s] => subscribers[i].notifiedCount[s] >= 1)
  /\ [][\A i \in Insts, s \in Sigs :
          subscribers'[i].notifiedCount[s] # subscribers[i].notifiedCount[s] =>
            /\ subscribers'[i].notifiedCount[s] = subscribers[i].notifiedCount[s] + 1
            /\ \/ subscribers[i].notifiedLast[s] = NoTime
               \/ now - subscribers[i].notifiedLast[s] >= DedupWindow]_vars

\* A notification of a signature is being handled less than 30 s (and more than
\* 0 s) after its callback, an earlier repeat has been suppressed, and the
\* callback has run once.
C1_Witness ==
  \E s \in Sigs :
    /\ subscribers[1].runPc = "handle"
    /\ subscribers[1].curMsg \in ValidNotifs
    /\ subscribers[1].curMsg.signature = s
    /\ subscribers[1].dupSeen[s]
    /\ subscribers[1].notifiedCount[s] = 1
    /\ now > subscribers[1].notifiedLast[s]
    /\ now - subscribers[1].notifiedLast[s] < DedupWindow

\* C6: Track of a registered address changes neither the registry nor any
\* subscriber and starts nothing; Track of an unregistered address allocates
\* exactly one new Subscriber, registers it and starts its Run; and at all
\* times the registry maps each address to a subscriber of that address and no
\* two subscribers that have not been stopped watch the same address.
C6_TrackOncePerAddress ==
  /\ [](\A a \in Addrs : subs[a] # NoInst =>
          subs[a] \in Allocated /\ subscribers[subs[a]].addr = a)
  /\ [](\A i, j \in Allocated :
          (i # j /\ ~subscribers[i].stopCh /\ ~subscribers[j].stopCh) =>
            subscribers[i].addr # subscribers[j].addr)
  /\ [][\A a \in Addrs : Track(a) =>
          IF subs[a] # NoInst
            THEN UNCHANGED <<subs, nInst, subscribers>>
            ELSE /\ nInst' = nInst + 1
                 /\ subs' = [subs EXCEPT ![a] = nInst']
                 /\ subscribers'[nInst'].addr = a
                 /\ subscribers'[nInst'].runPc = "start"
                 /\ subscribers'[nInst'].shouldOpen
                 /\ \A i \in Insts \ {nInst'} : subscribers'[i] = subscribers[i]]_vars

\* Track has just returned for an address that was registered, with a second
\* subscriber registered too.
C6_Witness ==
  /\ lastCall = [op |-> "Track", found |-> TRUE, err |-> FALSE]
  /\ \A a \in Addrs : subs[a] # NoInst

\* C7: Untrack of a registered address stops that address's subscriber (and
\* changes nothing else of it) and removes the address; Untrack of an
\* unregistered address changes nothing; both return no error, and no other
\* subscriber or registration changes.
C7_UntrackFrame ==
  [][\A a \in Addrs : Untrack(a) =>
       /\ ~lastCall'.err
       /\ \A b \in Addrs \ {a} : subs'[b] = subs[b]
       /\ IF subs[a] # NoInst
            THEN /\ subs'[a] = NoInst
                 /\ subscribers'[subs[a]] =
                      [subscribers[subs[a]] EXCEPT !.shouldOpen = FALSE, !.stopCh = TRUE]
                 /\ \A i \in Insts \ {subs[a]} : subscribers'[i] = subscribers[i]
            ELSE UNCHANGED <<subs, subscribers>>]_vars

\* Untrack has just stopped and removed one subscriber while another one stays
\* registered and running.
C7_Witness ==
  /\ lastCall = [op |-> "Untrack", found |-> TRUE, err |-> FALSE]
  /\ \E i \in Allocated : subscribers[i].stopCh /\ \A a \in Addrs : subs[a] # i
  /\ \E a \in Addrs : subs[a] # NoInst /\ ~subscribers[subs[a]].stopCh

\* C8: a stopped Subscriber stays stopped with shouldOpen false in every later
\* state, and a Track that registers an address allocates an instance that did
\* not exist before, not stopped and with shouldOpen true.
C8_StoppedIsTerminal ==
  /\ [](\A i \in Insts : subscribers[i].stopCh => ~subscribers[i].shouldOpen)
  /\ [][\A i \in Insts : subscribers[i].stopCh =>
          subscribers'[i].stopCh /\ ~subscribers'[i].shouldOpen]_vars
  /\ [][\A a \in Addrs : (Track(a) /\ subs[a] = NoInst) =>
          /\ subs'[a] \notin Allocated
          /\ subs'[a] \in Insts
          /\ ~subscribers'[subs'[a]].stopCh
          /\ subscribers'[subs'[a]].shouldOpen]_vars

\* An address was untracked and tracked again: its first subscriber is stopped
\* and unregistered, a later instance is registered for it and is not stopped.
C8_Witness ==
  \E i, j \in Allocated :
    /\ i < j
    /\ subscribers[i].addr = subscribers[j].addr
    /\ subscribers[i].stopCh /\ ~subscribers[i].shouldOpen
    /\ subs[subscribers[j].addr] = j
    /\ ~subscribers[j].stopCh /\ subscribers[j].shouldOpen

\* C9: once Stop has returned (stopCh is closed), Run calls DialContext no more.
C9_NoDialAfterStop ==
  [][\A i \in Insts :
       subscribers[i].stopCh =>
         ~(subscribers[i].runPc # "dialing" /\ subscribers'[i].runPc = "dialing")]_vars

\* Every goroutine of subscriber i has returned and no connection of it is open.
Terminated(i) ==
  /\ subscribers[i].runPc = "done"
  /\ subscribers[i].cleaner = "done"
  /\ subscribers[i].pinger # "run"
  /\ subscribers[i].orphanPingers = 0
  /\ subscribers[i].conn # "live"
  /\ subscribers[i].orphanConns = 0

\* C10: under fair scheduling of the goroutines, once Stop has been called the
\* connection is closed and Run, the pinger and cleanCache all return.
C10_StopTerminates ==
  \A i \in Insts : subscribers[i].stopCh ~> Terminated(i)

\* A subscriber that had been subscribed and had notified has been stopped and
\* all its goroutines have returned.
C10_Witness ==
  /\ subscribers[1].stopCh
  /\ Terminated(1)
  /\ \E s \in Sigs : subscribers[1].notifiedCount[s] > 0

\* The transfers of tx of a mint other than wrapped SOL that have addr as
\* sender or receiver.
OtherTokenLegs(tx, addr) ==
  {k \in 1..Len(tx.TokenTransfers) :
     /\ tx.TokenTransfers[k].Mint # wsolMint
     /\ addr \in {tx.TokenTransfers[k].FromUserAccount, tx.TokenTransfers[k].ToUserAccount}}

\* The native balance change the account data reports for addr: that of its
\* first entry, 0 without one.
NativeDelta(tx, addr) ==
  LET ks == {k \in 1..Len(tx.AccountData) : tx.AccountData[k].Account = addr} IN
  IF ks = {} THEN 0
  ELSE tx.AccountData[CHOOSE k \in ks : \A j \in ks : k <= j].NativeBalanceChange

\* C4: shouldFilter returns true exactly when the transaction did not fail
\* on-chain, no transfer of a mint other than wrapped SOL has the watched
\* address as sender or receiver, and the absolute native balance change of the
\* watched address is below 100,000 lamports; a fee-only change of -5,000
\* lamports with no transfers is filtered.
C4_FilterIff ==
  (probe.fn = "shouldFilter" /\ probe.called) =>
    LET tx == probe.args[1]
        addr == probe.args[2]
    IN
    /\ probe.result <=>
         /\ tx.TransactionError \in {"nil", "null"}
         /\ OtherTokenLegs(tx, addr) = {}
         /\ Abs(NativeDelta(tx, addr)) < 100000
    /\ (/\ tx.TransactionError \in {"nil", "null"}
        /\ tx.TokenTransfers = <<>>
        /\ tx.AccountData = <<AccountData(addr, -5000)>>) => probe.result

\* shouldFilter has returned true for a fee-only transaction: -5,000 lamports
\* for the watched address, no transfers, no error.
C4_Witness ==
  /\ probe.fn = "shouldFilter" /\ probe.called /\ probe.result
  /\ probe.args[1].TransactionError = "nil"
  /\ probe.args[1].TokenTransfers = <<>>
  /\ probe.args[1].AccountData = <<AccountData(probe.args[2], -5000)>>

\* C5 as stated: whenever no asset besides wrapped SOL moves for the watched
\* address and the absolute native delta is below the threshold, shouldFilter
\* returns true.
C5_FilterSuppresses ==
  (probe.fn = "shouldFilter" /\ probe.called) =>
    ((/\ OtherTokenLegs(probe.args[1], probe.args[2]) = {}
      /\ Abs(NativeDelta(probe.args[1], probe.args[2])) < 100000) => probe.result)

\* C5 amended: the same, for transactions that did not fail on-chain.
C5_FilterSuppressesUnfailed ==
  (probe.fn = "shouldFilter" /\ probe.called) =>
    ((/\ probe.args[1].TransactionError \in {"nil", "null"}
      /\ OtherTokenLegs(probe.args[1], probe.args[2]) = {}
      /\ Abs(NativeDelta(probe.args[1], probe.args[2])) < 100000) => probe.result)

\* shouldFilter has returned true for a transaction without error in which
\* wrapped SOL, and nothing else, moves to the watched address, whose native
\* delta is below the threshold.
C5_Witness ==
  /\ probe.fn = "shouldFilter" /\ probe.called /\ probe.result
  /\ probe.args[1].TransactionError = "null"
  /\ \E k \in 1..Len(probe.args[1].TokenTransfers) :
       /\ probe.args[1].TokenTransfers[k].Mint = wsolMint
       /\ probe.args[1].TokenTransfers[k].ToUserAccount = probe.args[2]
  /\ Abs(NativeDelta(probe.args[1], probe.args[2])) = 99999

\* C2: when fetchHeliusTransaction fails (transport error, non-200 status,
\* undecodable body, empty list), AnalyzeSignature returns an error and the
\* empty summary, and from the call of the callback to its return no message
\* is sent and no entry is stored in the metadata cache or the price cache.
C2_FetchFailureAborts ==
  /\ [][\A i \in Insts, resp \in HeliusResponses :
          (AnalyzeFetch(i, resp) /\ (resp.transportErr \/ resp.StatusCode # 200 \/ ~resp.decodes
                                     \/ resp.transactions = <<>>)) =>
            /\ an'.calls[i].pc = "result"
            /\ an'.calls[i].fetchErr
            /\ an'.calls[i].err
            /\ an'.calls[i].summary = EmptySummary]_vars
  /\ [][\A i \in Insts :
          (an.calls[i].fetchErr \/ an'.calls[i].fetchErr) =>
            /\ an'.metadataCache = an.metadataCache
            /\ an'.priceCache = an.priceCache
            /\ an'.outbox = an.outbox
            /\ ~an'.panicked
            /\ an'.calls[i].pc \in {"result", "return", "idle"}]_vars
  /\ [](\A i \in Insts : an.calls[i].fetchErr =>
          an.calls[i].err /\ an.calls[i].stores = 0 /\ an.calls[i].sends = 0)

\* The callback is about to return after a failed fetch, while an earlier call
\* has filled both caches and sent a message.
C2_Witness ==
  /\ an.calls[1].pc = "return"
  /\ an.calls[1].fetchErr
  /\ bonkMint \in DOMAIN an.metadataCache
  /\ "solana" \in DOMAIN an.priceCache
  /\ Len(an.outbox) = 1

\* C3: AnalyzeSignature returns the empty summary without error exactly when
\* the fetched transaction is filtered; the callback sends exactly one message,
\* carrying the summary, when AnalyzeSignature has returned a non-empty summary
\* without error, and sends nothing otherwise; nothing else sends.
C3_NotifyIffSummary ==
  /\ [](\A i \in Insts : an.calls[i].pc = "result" =>
          ((an.calls[i].summary = EmptySummary /\ ~an.calls[i].err)
             <=> (~an.calls[i].fetchErr /\ shouldFilter(an.calls[i].tx, subscribers[i].addr))))
  /\ [][\A i \in Insts :
          (an.calls[i].pc = "result" /\ an'.calls[i].pc # "result") =>
            IF ~an.calls[i].err /\ an.calls[i].summary # EmptySummary
              THEN /\ Len(an'.outbox) = Len(an.outbox) + 1
                   /\ an'.outbox[Len(an'.outbox)].summary = an.calls[i].summary
                   /\ SubSeq(an'.outbox, 1, Len(an.outbox)) = an.outbox
                   /\ an'.calls[i].sends = 1
              ELSE an'.outbox = an.outbox /\ an'.calls[i].sends = 0]_vars
  /\ [][an'.outbox # an.outbox =>
          \E i \in Insts : an.calls[i].pc = "result" /\ an'.calls[i].pc = "return"]_vars
  /\ [](\A i \in Insts : an.calls[i].pc # "return" => an.calls[i].sends = 0)

\* The callback has sent its one message, for a swap, after an earlier call of
\* it for another signature sent none.
C3_Witness ==
  /\ an.calls[1].pc = "return"
  /\ an.calls[1].sends = 1
  /\ an.calls[1].tx = TxSwap
  /\ Len(an.outbox) = 1
  /\ \E s \in Sigs : subscribers[1].notifiedCount[s] = 1 /\ s # subscribers[1].cbSig

\* C11: Run returns only once the Subscriber has been stopped, and while it has
\* not been stopped every dial error, subscribe-write error and read error is
\* followed, eventually, by a new call of DialContext.
C11_FailureLeadsToRedial ==
  /\ [](\A i \in Insts : subscribers[i].runPc = "done" => subscribers[i].stopCh)
  /\ \A i \in Insts :
       (subscribers[i].lastFail \in {"dial", "subscribe", "read"}
          /\ subscribers[i].runPc \in {"sleep", "cleanup", "check", "dial"}
          /\ ~subscribers[i].stopCh)
         ~> (subscribers[i].runPc = "dialing" \/ subscribers[i].stopCh)

\* DialContext has been called again after a read error ended the previous
\* connection of a subscriber that has not been stopped.
C11_Witness ==
  /\ subscribers[1].runPc = "dialing"
  /\ subscribers[1].lastFail = "read"
  /\ ~subscribers[1].stopCh

\* C12: whenever Run calls DialContext after a dial error, a subscribe-write
\* error or a read error, time.Sleep(bo.Next()) has run since that failure.
C12_RedialAfterBackoff ==
  [][\A i \in Insts :
       (subscribers[i].runPc = "dial" /\ subscribers'[i].runPc = "dialing"
          /\ subscribers[i].lastFail # "")
         => subscribers[i].slept]_vars

\* C13: a successful dial puts the backoff back to its floor, and the first
\* delay Next issues after a connection that had been established (the dial
\* that follows a subscribe-write error or a read error fails) is the floor of
\* 1 s within the jitter of 20 %, whatever the delay had grown to before.
C13_ResetAfterDial ==
  /\ [][\A i \in Insts :
          (subscribers[i].runPc = "dialed" /\ subscribers'[i].runPc = "subscribe")
            => subscribers'[i].bo = BackoffMin]_vars
  /\ [][\A i \in Insts :
          (subscribers[i].runPc = "dialing" /\ subscribers'[i].runPc = "sleep"
             /\ subscribers[i].lastFail \in {"subscribe", "read"})
            => /\ subscribers'[i].wait >= BackoffMin * 10 * (100 - BackoffJitterPct)
               /\ subscribers'[i].wait <= BackoffMin * 10 * (100 + BackoffJitterPct)]_vars

\* Run sleeps a delay of the floor after a failed dial while the connection of
\* an earlier, successful dial is still waiting for its closer.
C13_Witness ==
  /\ subscribers[1].runPc = "sleep"
  /\ subscribers[1].wait <= BackoffMin * 10 * (100 + BackoffJitterPct)
  /\ subscribers[1].orphanConns > 0

\* C14: when the read loop has handled the node's JSON-RPC error reply to
\* logsSubscribe, Run leaves the read loop to drop the connection and dial again.
C14_SubscribeErrorReconnects ==
  [][\A i \in Insts :
       (subscribers[i].runPc = "handle" /\ subscribers[i].curMsg = SubscribeErrorReply
          /\ subscribers'[i].runPc # "handle")
         => subscribers'[i].runPc \in {"cleanup", "check"}]_vars

\* C15: of a frame the read loop has read, a payload that does not decode, a
\* method other than logsNotification, an empty signature and a non-null err
\* each send the loop back to ReadMessage on the same connection with no
\* callback; every other notification goes to isDuplicate and, when that
\* returns false, SignatureNotify is called with its signature and the
\* subscriber's address, whatever the signature string is.
C15_EveryNotificationHandled ==
  [][\A i \in Insts :
       (subscribers[i].runPc = "handle" /\ subscribers'[i].runPc # "handle") =>
         LET s == subscribers[i]
             m == s.curMsg
         IN
         IF (~m.decodes \/ m.method # "logsNotification" \/ m.signature = "" \/ m.err)
              \/ isDuplicate(s.dedupeCache, m.signature, now)
           THEN /\ subscribers'[i].runPc = "read"
                /\ subscribers'[i].conn = s.conn
                /\ subscribers'[i].notifiedCount = s.notifiedCount
           ELSE /\ subscribers'[i].runPc = "callback"
                /\ subscribers'[i].cbSig = m.signature
                /\ subscribers'[i].addr = s.addr
                /\ subscribers'[i].conn = s.conn]_vars

\* C16: with no time passing, each Subscriber calls SignatureNotify at most
\* once per signature over all its connections, and whether it calls it for a
\* notification depends on its own earlier callbacks alone: a signature it has
\* not forwarded yet is forwarded, whatever the other subscriber has seen.
C16_DedupPerSubscriber ==
  /\ [](\A i \in Insts, s \in Sigs : subscribers[i].notifiedCount[s] <= 1)
  /\ [][\A i \in Insts :
          (subscribers[i].runPc = "handle" /\ subscribers'[i].runPc # "handle"
             /\ subscribers[i].curMsg \in ValidNotifs) =>
            (subscribers'[i].runPc = "callback"
               <=> subscribers[i].notifiedCount[subscribers[i].curMsg.signature] = 0)]_vars

\* Subscriber 1 handles a signature again that it forwarded on an earlier
\* connection (it has dialled again since its last callback), and subscriber 2
\* has forwarded the same signature for its own address.
C16_Witness ==
  \E s \in Sigs :
    /\ subscribers[1].runPc = "handle"
    /\ subscribers[1].curMsg \in ValidNotifs
    /\ subscribers[1].curMsg.signature = s
    /\ subscribers[1].notifiedCount[s] = 1
    /\ subscribers[1].redialed
    /\ subscribers[2].notifiedCount[s] = 1
    /\ subscribers[1].addr # subscribers[2].addr

\* The registered addresses.
Registered == {a \in Addrs : subs[a] # NoInst}

\* The registered addresses whose subscriber should be open and is not.
DroppedAddrs == {a \in Registered : subscribers[subs[a]].shouldOpen /\ ~subscribers[subs[a]].open}

\* C17: Stats returns tracked = the number of registered subscribers, open =
\* the number of them whose open flag is true, dropped = the registered
\* addresses with shouldOpen true and open false, each once and in ascending
\* order; and the call changes no subscriber, connection or registration.
C17_StatsCounts ==
  [][\A order \in SeqsUpTo(Addrs, Cardinality(Addrs)) : Stats(order) =>
       /\ probe'.result.tracked = Cardinality(Registered)
       /\ probe'.result.open = Cardinality({a \in Registered : subscribers[subs[a]].open})
       /\ Len(probe'.result.dropped) = Cardinality(DroppedAddrs)
       /\ {probe'.result.dropped[k] : k \in 1..Len(probe'.result.dropped)} = DroppedAddrs
       /\ \A k \in 1..(Len(probe'.result.dropped) - 1) :
            AddrRank(probe'.result.dropped[k]) < AddrRank(probe'.result.dropped[k + 1])
       /\ UNCHANGED <<subs, nInst, subscribers, ctxDone, now, lastCall, an>>]_vars

\* Stats has returned two dropped addresses while both subscribers are
\* registered, should be open and are not.
C17_Witness ==
  /\ probe.fn = "Stats"
  /\ probe.called
  /\ Len(probe.result.dropped) = 2
  /\ DroppedAddrs = Addrs

\* C18: with one analysis at a time, fetchOnChainMetadata is called at most
\* once per mint and never for WSOL or USDC, and an entry of the metadata cache,
\* once stored, stays as it is whatever the RPC node would answer later.
C18_MetadataMemoized ==
  /\ [](\A m \in Mints : an.fetches[m] <= 1)
  /\ [](an.fetches[wsolMint] = 0 /\ an.fetches[usdcMint] = 0)
  /\ [][\A m \in DOMAIN an.metadataCache :
          m \in DOMAIN an'.metadataCache /\ an'.metadataCache[m] = an.metadataCache[m]]_vars

\* A later analysis of a transaction that moves the token has passed
\* ensureMetadataIsCached without storing anything: the token was fetched once,
\* by an earlier analysis, and its entry is in the cache.
C18_Witness ==
  /\ an.calls[1].pc = "items"
  /\ bonkMint \in mintsOf(an.calls[1].tx)
  /\ an.calls[1].stores = 0
  /\ an.fetches[bonkMint] = 1
  /\ bonkMint \in DOMAIN an.metadataCache

\* C19: an entry of the metadata cache is never replaced by a different value,
\* also when two analyses run at the same time.
C19_CacheEntryStable ==
  [][\A m \in DOMAIN an.metadataCache :
       m \in DOMAIN an'.metadataCache /\ an'.metadataCache[m] = an.metadataCache[m]]_vars

\* C20: when fetchOnChainMetadata has returned for a mint, whatever step of it
\* failed, the cache holds an entry for the mint (the fallback when it failed)
\* and ensureMetadataIsCached goes on with the other mints.
C20_FetchFailureFallsBack ==
  [][\A i \in Insts :
       (an.calls[i].pc = "metaFetch" /\ an'.calls[i].pc # "metaFetch") =>
         /\ an'.calls[i].pc = "metadata"
         /\ an.calls[i].curMint \in DOMAIN an'.metadataCache
         /\ an'.calls[i].todo = an.calls[i].todo \ {an.calls[i].curMint}]_vars

\* C21: GetPriceUSD returns the cached price, without a remote fetch, when the
\* coin's cached quote was fetched less than 60 seconds ago; otherwise it
\* fetches, and returns (price, true) with the cache updated on success, and
\* (0, false) with the cache unchanged on a failed fetch or an answer that
\* lacks the coin, never the stale cached price.
C21_PriceCacheTTL ==
  (probe.fn = "GetPriceUSD" /\ probe.called) =>
    LET coinID == probe.args[1]
        answer == probe.args[2]
        cache == probe.args[3]
        t == probe.args[4]
        r == probe.result
        fresh == coinID \in DOMAIN cache /\ t - cache[coinID].LastFetched < 60
        success == ~answer.transportErr /\ answer.has
    IN
    /\ an.priceCache = r.cache
    /\ fresh => ~r.fetched /\ r.ok /\ r.price = cache[coinID].Price /\ r.cache = cache
    /\ ~fresh => r.fetched
    /\ (~fresh /\ success) =>
          /\ r.ok /\ r.price = answer.usd
          /\ DOMAIN r.cache = DOMAIN cache \cup {coinID}
          /\ r.cache[coinID] = [Price |-> answer.usd, LastFetched |-> t]
          /\ \A c \in DOMAIN cache \ {coinID} : r.cache[c] = cache[c]
    /\ (~fresh /\ ~success) => ~r.ok /\ r.price = 0 /\ r.cache = cache

\* A quote that has gone stale, and a fetch that fails: (0, false).
C21_Witness ==
  /\ probe.fn = "GetPriceUSD" /\ probe.called
  /\ probe.args[1] \in DOMAIN probe.args[3]
  /\ probe.args[4] - probe.args[3][probe.args[1]].LastFetched >= 60
  /\ probe.args[2].transportErr
  /\ ~probe.result.ok

\* The signed sum of the first k token transfers of tx for addr and mint:
\* outgoing legs negative, incoming legs positive.
RECURSIVE LegSum(_, _, _, _)
LegSum(tx, mint, addr, k) ==
  IF k = 0 THEN 0
  ELSE LET tt == tx.TokenTransfers[k] IN
       LegSum(tx, mint, addr, k - 1)
       + (IF tt.Mint = mint /\ tt.ToUserAccount = addr THEN tt.TokenAmount ELSE 0)
       - (IF tt.Mint = mint /\ tt.FromUserAccount = addr THEN tt.TokenAmount ELSE 0)

\* The SOL exposure of addr in tx: its native balance delta, plus its
\* wrapped-SOL net delta when that is positive and some wrapped-SOL transfer to
\* addr came from another account.
SolExposure(tx, addr) ==
  LET net == LegSum(tx, wsolMint, addr, Len(tx.TokenTransfers)) IN
  NativeDelta(tx, addr)
  + (IF /\ net > 0
        /\ \E k \in 1..Len(tx.TokenTransfers) :
             /\ tx.TokenTransfers[k].Mint = wsolMint
             /\ tx.TokenTransfers[k].ToUserAccount = addr
             /\ tx.TokenTransfers[k].FromUserAccount # addr
      THEN net ELSE 0)

\* The entries of a sent or received list that carry the symbol SOL, the
\* symbol of the native entry and of wrapped SOL's metadata.
SolEntries(list) == {k \in 1..Len(list) : list[k].symbol = "SOL"}

\* C22: in calculateNetBalanceChanges the SOL amount reported for the watched
\* address is its native balance delta from the account data, plus the
\* wrapped-SOL net delta only when that is positive and a wrapped-SOL transfer
\* to the address came from another account; a negative wrapped-SOL delta is
\* not subtracted, the native transfers play no part, and wrapped SOL has no
\* entry of its own: the lists hold one SOL entry, of that amount, on the
\* side of its sign, or none when it is zero.
C22_SolExposure ==
  (probe.fn = "calculateNetBalanceChanges" /\ probe.called) =>
    LET tx == probe.args[1]
        addr == probe.args[2]
        r == probe.result
        sol == SolExposure(tx, addr)
    IN
    /\ ~r.panics
    /\ sol > 0 => /\ SolEntries(r.sent) = {}
                  /\ Cardinality(SolEntries(r.received)) = 1
                  /\ \A k \in SolEntries(r.received) : r.received[k].amount = sol
    /\ sol < 0 => /\ SolEntries(r.received) = {}
                  /\ Cardinality(SolEntries(r.sent)) = 1
                  /\ \A k \in SolEntries(r.sent) : r.sent[k].amount = -sol
    /\ sol = 0 => SolEntries(r.sent) = {} /\ SolEntries(r.received) = {}

\* The watched address wrapped and spent more wrapped SOL than a counterparty
\* sent it, while native transfers were present: only the native delta shows.
C22_Witness ==
  /\ probe.fn = "calculateNetBalanceChanges" /\ probe.called
  /\ LET tx == probe.args[1]
         addr == probe.args[2]
     IN /\ LegSum(tx, wsolMint, addr, Len(tx.TokenTransfers)) < 0
        /\ \E k \in 1..Len(tx.TokenTransfers) :
             /\ tx.TokenTransfers[k].Mint = wsolMint
             /\ tx.TokenTransfers[k].ToUserAccount = addr
             /\ tx.TokenTransfers[k].FromUserAccount # addr
        /\ tx.NativeTransfers # <<>>
        /\ NativeDelta(tx, addr) = -5000
        /\ Cardinality(SolEntries(probe.result.sent)) = 1

\* The exact total of the amounts of the first k token transfers of tx of
\* mint that leave addr (out) or reach it.
RECURSIVE LegTotal(_, _, _, _, _)
LegTotal(tx, mint, addr, out, k) ==
  IF k = 0 THEN <<>>
  ELSE LET tt == tx.TokenTransfers[k]
           mine == tt.Mint = mint /\ addr = (IF out THEN tt.FromUserAccount ELSE tt.ToUserAccount)
       IN BitsAdd(LegTotal(tx, mint, addr, out, k - 1), IF mine THEN tt.TokenAmount.mag ELSE <<>>, 0)

\* The entries of a sent or received list for mint.
MintEntries(list, mint) == {k \in 1..Len(list) : list[k].Mint = mint}

\* C23: for every asset other than wrapped SOL, an asset whose signed sum of
\* the watched address's legs (outgoing negative, incoming positive) is
\* negative appears exactly once in sent and not in received, one whose sum
\* is positive exactly once in received and not in sent, and one whose sum
\* is zero in neither list.
C23_SignedSumClassifies ==
  (probe.fn = "tokenDeltas" /\ probe.called) =>
    \A mint \in {usdcMint, bonkMint} :
      LET tx == probe.args[1]
          addr == probe.args[2]
          in == LegTotal(tx, mint, addr, FALSE, Len(tx.TokenTransfers))
          out == LegTotal(tx, mint, addr, TRUE, Len(tx.TokenTransfers))
          nSent == Cardinality(MintEntries(probe.result.sent, mint))
          nReceived == Cardinality(MintEntries(probe.result.received, mint))
      IN
      /\ BitsLess(in, out) => nSent = 1 /\ nReceived = 0
      /\ BitsLess(out, in) => nSent = 0 /\ nReceived = 1
      /\ in = out => nSent = 0 /\ nReceived = 0

\* The legs of a side of the swap event that addr owns, in event order.
OwnedLegs(legs, addr) == SelectSeq(legs, LAMBDA leg : leg.UserAccount = addr)

\* list renders legs one for one: the k-th entry is the k-th leg's amount.
RendersLegs(list, legs) ==
  /\ Len(list) = Len(legs)
  /\ \A k \in 1..Len(legs) :
       /\ list[k].amount = legs[k].RawTokenAmount.TokenAmount
       /\ list[k].decimals = legs[k].RawTokenAmount.Decimals

\* C24: for a transaction of type SWAP with a swap event, sent is exactly the
\* event's input legs owned by the watched address and received exactly its
\* output legs owned by the watched address, in event order and without
\* netting, and the headline is SWAP via the transaction's source; without a
\* swap event the lists are those of calculateNetBalanceChanges.
C24_SwapEventLegs ==
  (probe.fn = "parseSwapEvent" /\ probe.called) =>
    LET tx == probe.args[1]
        addr == probe.args[2]
        r == probe.result
        net == calculateNetBalanceChanges(tx, addr, NewAnalyzer.metadataCache, probe.args[3],
                                          EmptyMap, probe.args[4], now)
    IN
    /\ r.headline.kind = "SWAP" /\ r.headline.source = "JUPITER"
    /\ ~r.panics
    /\ tx.Swap.present =>
         /\ RendersLegs(r.sent, OwnedLegs(tx.Swap.TokenInputs, addr))
         /\ RendersLegs(r.received, OwnedLegs(tx.Swap.TokenOutputs, addr))
    /\ ~tx.Swap.present => r.sent = net.sent /\ r.received = net.received

\* A swap event with two input legs of one mint, only the second owned by the
\* watched address, and an owned output leg of the same mint: one entry in
\* sent, one in received.
C24_Witness ==
  /\ probe.fn = "parseSwapEvent" /\ probe.called
  /\ LET tx == probe.args[1]
         addr == probe.args[2]
     IN /\ tx.Swap.present
        /\ Len(tx.Swap.TokenInputs) = 2
        /\ tx.Swap.TokenInputs[1].UserAccount # addr
        /\ tx.Swap.TokenInputs[2].UserAccount = addr
        /\ Len(tx.Swap.TokenOutputs) = 1
        /\ tx.Swap.TokenOutputs[1].UserAccount = addr
        /\ tx.Swap.TokenOutputs[1].Mint = tx.Swap.TokenInputs[2].Mint
        /\ tx.TokenTransfers # <<>>
        /\ Len(probe.result.sent) = 1 /\ Len(probe.result.received) = 1

\* C25: once fetchHeliusTransaction has succeeded, AnalyzeSignature completes
\* for every transaction, whatever its type, mints and signature and whether
\* or not its mints have cached metadata: no step of it panics.
C25_AnalysisNeverAborts ==
  \A i \in Insts : an.calls[i].pc # "panic"

\* C26: once the context passed to AnalyzeSignature is done, no network call
\* of that analysis (enrichment fetch, metadata RPC, price fetch) is carried
\* out any more.
C26_CancellationPropagates ==
  \A i \in Insts : an.calls[i].late = 0

\* C27 as stated: analysis is not serialized per address, so a notification
\* that has reached a subscription never waits for the callback of an earlier
\* signature of that subscription to return.
C27_NoSerialization ==
  \A i \in Insts :
    ~(/\ subscribers[i].runPc = "callback"
      /\ \E k \in 1..Len(subscribers[i].inbox) :
           /\ subscribers[i].inbox[k] \in ValidNotifs
           /\ subscribers[i].inbox[k].signature # subscribers[i].cbSig)

\* C27, amended: analysis is serialized per subscription: at most one call of
\* SignatureNotify of a subscriber is in progress at any time, and while it is
\* the read loop takes no frame.
C27_SerializedPerSubscription ==
  \A i \in Insts :
    /\ subscribers[i].callbacks <= 1
    /\ subscribers[i].callbacks = 1 <=> subscribers[i].runPc = "callback"

\* The callback of one signature is running while the notification of another
\* signature waits on the same connection.
C27_Witness ==
  /\ subscribers[1].runPc = "callback"
  /\ subscribers[1].cbSig = LongSignature
  /\ subscribers[1].callbacks = 1
  /\ \E k \in 1..Len(subscribers[1].inbox) :
       /\ subscribers[1].inbox[k] \in ValidNotifs
       /\ subscribers[1].inbox[k].signature = OtherSignature

\* C29 as stated: while subscribed the read deadline is extended on every
\* received pong and on every received data message, so it always lies 60 s
\* after the last frame received, and the connection fails on it only when
\* nothing has been received for 60 s.
C29_DeadlineFollowsEveryFrame ==
  \A i \in Insts :
    /\ subscribers[i].readDeadline # NoTime =>
         subscribers[i].readDeadline = subscribers[i].lastRecv + 60
    /\ subscribers[i].timedOut => now - subscribers[i].lastRecv >= 60

\* C29, amended: the read deadline is set 60 s ahead by every pong that
\* ReadMessage takes and is left as it is by every data frame, and the read
\* loop fails on the deadline only once it has passed.
C29_DeadlineFollowsPongs ==
  [][\A i \in Insts :
       LET s == subscribers[i]
           taken == s.runPc = "read" /\ s.inbox # <<>> /\ subscribers'[i].inbox = Tail(s.inbox)
       IN
       /\ (taken /\ Head(s.inbox) = PongFrame) => subscribers'[i].readDeadline = now + 60
       /\ (taken /\ Head(s.inbox) # PongFrame) => subscribers'[i].readDeadline = s.readDeadline
       /\ (~s.timedOut /\ subscribers'[i].timedOut) => now >= s.readDeadline]_vars

\* The read deadline has ended a connection on which a data frame was
\* received less than 60 s before.
C29_Witness ==
  /\ subscribers[1].timedOut
  /\ subscribers[1].lastRecv > 0
  /\ now - subscribers[1].lastRecv < 60

\* C30: once the context passed to Track is cancelled, Run stops reconnecting:
\* at the head of its loop it goes on to no further DialContext.
C30_CancelStopsRun ==
  [][\A i \in Insts :
       (ctxDone /\ subscribers[i].runPc = "check") => subscribers'[i].runPc # "dial"]_vars

\* The character of s at k.
CharAt(s, k) == SubSeq(s, k, k)

Digits == {DigitChar(d) : d \in 0..9}

\* The string s without the characters equal to c.
RECURSIVE Without(_, _)
Without(s, c) ==
  IF Len(s) = 0 THEN ""
  ELSE (IF CharAt(s, 1) = c THEN "" ELSE CharAt(s, 1)) \o Without(SubSeq(s, 2, Len(s)), c)

\* The number a string of decimal digits writes.
RECURSIVE Atoi(_)
Atoi(s) ==
  IF Len(s) = 0 THEN 0
  ELSE 10 * Atoi(SubSeq(s, 1, Len(s) - 1))
         + (CHOOSE d \in 0..9 : DigitChar(d) = CharAt(s, Len(s)))

\* s is digits grouped in threes from the right by commas, a digit first.
GroupedInThrees(s) ==
  /\ Len(s) > 0
  /\ CharAt(s, 1) \in Digits
  /\ \A k \in 1..Len(s) :
       IF (Len(s) - k + 1) % 4 = 0 THEN CharAt(s, k) = "," ELSE CharAt(s, k) \in Digits

\* n / 10^p is a decimal of p places nearest to f.
Nearest(n, p, f) == 2 * Abs(n * Pow(2, f.exp) - f.num * Pow(10, p)) <= Pow(2, f.exp)

\* The index of the first c in s, 0 without one.
IndexOf(s, c) ==
  LET ks == {k \in 1..Len(s) : CharAt(s, k) = c} IN
  IF ks = {} THEN 0 ELSE CHOOSE k \in ks : \A j \in ks : k <= j

\* What a plain or exponent notation s writes: digits / 10^scale.
Written(s) ==
  LET e == IndexOf(s, "e")
      mant == IF e = 0 THEN s ELSE SubSeq(s, 1, e - 1)
      ex == IF e = 0 THEN 0 ELSE Atoi(SubSeq(s, e + 2, Len(s)))
      dot == IndexOf(mant, ".")
      places == IF dot = 0 THEN 0 ELSE Len(mant) - dot
  IN [digits |-> Atoi(Without(mant, ".")), scale |-> places + ex,
      wellFormed |-> /\ \A k \in 1..Len(mant) : CharAt(mant, k) \in Digits \cup {"."}
                     /\ e # 0 => CharAt(s, e + 1) = "-"]

\* s writes f rounded to three significant figures: at most three digits from
\* its first non-zero digit on, and no three-figure decimal is nearer to f.
ThreeSignificant(s, f) ==
  LET w == Written(s)
      nd == Len(Itoa(w.digits))
  IN /\ w.wellFormed
     /\ IF f.num = 0 THEN w.digits = 0
        ELSE /\ w.digits > 0
             /\ nd <= 3
             /\ Nearest(w.digits * Pow(10, 3 - nd), w.scale + 3 - nd, f)

ReferencedMints(tx) ==
  {tx.TokenTransfers[k].Mint : k \in 1..Len(tx.TokenTransfers)}
    \cup {tx.Swap.TokenInputs[k].Mint : k \in 1..Len(tx.Swap.TokenInputs)}
    \cup {tx.Swap.TokenOutputs[k].Mint : k \in 1..Len(tx.Swap.TokenOutputs)}

\* C31: once ensureMetadataIsCached has returned, every asset identifier the
\* transaction's token transfers and swap-event legs name has an entry in the
\* metadata handed to classification and formatting.
C31_PrewarmCoversEveryMint ==
  \A i \in Insts :
    an.calls[i].pc = "items" => ReferencedMints(an.calls[i].tx) \subseteq DOMAIN an.calls[i].metadataMap

\* C32: parsing a metadata record of any length, with any name and symbol
\* length prefixes, returns a symbol or an error: it neither panics nor reads
\* bytes past the end of the record.
C32_ParseStaysInRecord ==
  (probe.fn = "fetchOnChainMetadata" /\ probe.called) =>
    ~probe.result.panics /\ ~probe.result.overread

\* C33: analysing the same transaction for the same address a second time,
\* with the same metadata cache and the same price answer, gives the same sent
\* and received lists in the same order, the same headline and the same
\* summary.
C33_RerunSameResult ==
  (probe.fn = "AnalyzeSignature" /\ Len(probe.result) = 2) => probe.result[1] = probe.result[2]

\* C34: the connected flag is false whenever Run is about to dial, is dialing,
\* sleeps in backoff or has returned.
C34_OpenOnlyWhileConnected ==
  \A i \in Insts :
    subscribers[i].runPc \in {"dial", "dialing", "sleep", "done"} => ~subscribers[i].open

\* C35: every subscriber the registry holds has not been stopped, and the
\* registered subscribers are those that are open and those that are dropped:
\* tracked = open + len(dropped).
C35_RegistryHoldsLiveSubscribers ==
  /\ \A a \in Registered : ~subscribers[subs[a]].stopCh /\ subscribers[subs[a]].shouldOpen
  /\ Cardinality(Registered) =
       Cardinality({a \in Registered : subscribers[subs[a]].open}) + Cardinality(DroppedAddrs)

\* C36: once Untrack has returned for its address, a removed Subscriber calls
\* SignatureNotify no more.
C36_NoCallbackAfterUntrack ==
  [][\A i \in Insts :
       (subscribers[i].stopCh /\ subs[subscribers[i].addr] # i) =>
         ~(subscribers[i].runPc # "callback" /\ subscribers'[i].runPc = "callback")]_vars

\* C37: the sweep of cleanCache deletes no entry younger than a minute, so
\* none inside the 30 s duplicate window: whatever the interleaving of the
\* sweep with isDuplicate, a signature forwarded less than 30 s ago is still
\* reported as a duplicate.
C37_SweepKeepsWindow ==
  /\ [](\A i \in Insts, s \in Sigs :
          (subscribers[i].notifiedLast[s] # NoTime /\ now - subscribers[i].notifiedLast[s] < DedupWindow) =>
            isDuplicate(subscribers[i].dedupeCache, s, now))
  /\ [][\A i \in Insts, s \in Sigs :
          (subscribers[i].dedupeCache[s] # NoTime /\ subscribers'[i].dedupeCache[s] = NoTime) =>
            /\ now - subscribers[i].dedupeCache[s] > SweepAge
            /\ now - subscribers[i].dedupeCache[s] >= DedupWindow]_vars

\* A sweep has deleted the entry of one forwarded signature while the entry of
\* another, forwarded less than 30 s ago, is still in the cache.
C37_Witness ==
  \E s, r \in Sigs :
    /\ subscribers[1].notifiedLast[r] # NoTime
    /\ subscribers[1].dedupeCache[r] = NoTime
    /\ subscribers[1].dedupeCache[s] # NoTime
    /\ now - subscribers[1].dedupeCache[s] < DedupWindow

\* C38: whenever main has finished re-tracking and no command handler is
\* mid-execution, every address in the Manager's registry is in the wallet
\* store.
C38_RegistryWithinStore ==
  (handler.main.pc = "run" /\ \A h \in Handlers : handler.running[h] = Idle)
    => Registered \subseteq handler.st

\* C39: whenever shouldFilter suppresses a transaction for a watched address,
\* calculateNetBalanceChanges on the same transaction and address reports no
\* token entry and a SOL exposure below the dust threshold (|lamports| below
\* 10^9 / 10^4): nothing reportable is suppressed.
C39_FilterAgreesWithNetting ==
  (probe.fn = "shouldFilter, calculateNetBalanceChanges" /\ probe.called /\ probe.result.filtered) =>
    LET r == probe.result IN
    /\ ~r.panics
    /\ \A k \in 1..Len(r.sent) :
         r.sent[k].symbol = "SOL" /\ r.sent[k].amount < lamportsPerSol \div filterThresholdInv
    /\ \A k \in 1..Len(r.received) :
         r.received[k].symbol = "SOL" /\ r.received[k].amount < lamportsPerSol \div filterThresholdInv

====
